---- MODULE Spec2Model ----
(***************************************************************************)
(* Verification model of the huskki vehicle-interface pipeline:            *)
(*   - the binary frame codec (drivers/binary.go, SocketCAN.writeFrame)    *)
(*   - the event hub (events/events.go)                                    *)
(*   - the SocketCAN polling loop, tester-present loop and security        *)
(*     handshake (drivers/socket_can.go)                                   *)
(*   - the K701 seed/key function and decode table (ecus)                  *)
(*   - stream windowing (models.Stream)                                    *)
(*   - replay of a recorded file (drivers/replay.go)                       *)
(*   - shutdown of the SocketCAN loops (SocketCAN.Close)                   *)
(*   - the process entry point (cmd/dashboard)                             *)
(*   - the Arduino driver's serial reader (Arduino.Run, processBinary)     *)
(*   - ISO-TP reception (SocketCAN.isotpRecv)                              *)
(*   - the poll scheduler over a long window (SocketCAN.Run)               *)
(*   - the back-off of the receive loop (SocketCAN.receiveLoop)            *)
(*   - ISO-TP transmission (SocketCAN.isotpSend)                           *)
(*   - one UDS request and its responses (udsRequest, SendAndWait)         *)
(*   - the poll catalogue from request to replay (DIDsToPollIntervalK701)  *)
(*   - the ROM dumper read loop (cmd/dumper)                               *)
(*   - SendAndWait with its waiter and dispatch                            *)
(*   - the server tick loop against Stream.Add (Server.tickLoop)           *)
(* Each component has its own specification over the shared variables.     *)
(***************************************************************************)
EXTENDS Integers, Sequences, FiniteSets, TLC

VARIABLES
    \* ---- frame codec: log file written by writeFrame, read by readBinaryFrame
    logFile,      \* bytes appended to the raw log (p.writer)
    wrFrames,     \* frames handed to writeFrame, in order (history)
    rdPos,        \* position of the bufio.Reader in logFile (1-based index of next byte)
    rdOut,        \* results returned by the successive readBinaryFrame calls
    codecPhase,   \* "record" while the driver writes, "replay" once the file is read back
    \* ---- event hub (events.EventHub)
    events,       \* h.events: the buffered ingress channel
    eventsClosed, \* close(h.events) has happened
    subs,         \* keys of h.subs
    next,         \* h.next
    last,         \* h.last
    hasLast,      \* h.hasLast
    chanBuf,      \* buffer of the channel made by the Subscribe call that returned this id
    chanClosed,   \* that channel has been closed
    runPc,        \* EventHub.run: "recv" | "fanout" | "done"
    runEvent,     \* the event run is fanning out
    runSubs,      \* channels of run's snapshot not yet offered the event
    hubPanic,     \* a goroutine panicked (send on or close of a closed channel)
    recvd,        \* samples each subscriber has taken from its channel (history)
    nBroadcast,   \* number of Broadcast calls that have returned (history)
    hubDropped,   \* samples dropped by Broadcast because h.events was full (history)
    subDropped,   \* per subscriber, samples dropped by run because its channel was full (history)
    cancelled,    \* per subscriber, its cancel function has closed its channel (history)
    subAt,        \* per subscriber, nBroadcast when Subscribe returned (history)
    subSnap,      \* per subscriber, the snapshot Subscribe pushed, 0 if none (history)
    \* ---- SocketCAN polling loop (Run), receive loop, tester-present loop
    clock,        \* wall clock in ms (time.Now)
    ctxDone,      \* p.cancel() has been called (p.ctx.Done)
    pollPc,       \* Run: "scan" | "sleep" | "send" | "wait" | "returned"
    startIdx,     \* Run's startIdx
    readyIdx,     \* Run's readyIdx
    wakeAt,       \* expiry time of Run's minWait timer
    pollNow,      \* Run's now (time.Now() before the request)
    deadline,     \* expiry time of the request context (DefaultRespTimeout)
    lastRead,     \* p.lastRead, NoTime for the zero time
    lastChk,      \* p.lastChk
    lastLen,      \* p.lastLen
    waiterOn,     \* a waiter channel is registered for CanIdRsp in p.waiters
    waitCh,       \* buffer of that waiter channel
    busRsp,       \* response frames the ECU has sent, not yet read by receiveLoop
    tpNext,       \* time of the next tick of testerPresentLoop's ticker
    tpSent,       \* number of tester-present frames transmitted
    tpMidRequest, \* number of them transmitted while a request awaited its response (history)
    streamAdds,   \* the stream.Add calls made by Run, in order (history)
    latest,       \* per stream key, the value of stream.Latest()
    pollLog,      \* frames handed to writeFrame by Run, in order
    issuedAt,     \* per DID index, the times its RDBI requests were issued (history)
    rspHist,      \* per DID index, the payloads of its accepted responses (history)
    polled,       \* the DID indexes Run's scans selected, each with the scan's start and the due DIDs (history)
    \* ---- SocketCAN.Init / DoSecurityHandshake
    hsLevel,      \* the level argument
    hsPc,         \* "start" | "seedWait" | "keySend" | "keyWait" | "sleep" | "done" | "returned"
    hsSeed,       \* <<seedHi, seedLo>> returned by rawRequestSeed
    hsKey,        \* <<keyHi, keyLo>> computed from the seed
    hsAttempt,    \* the loop variable attempt
    hsResult,     \* error returned by DoSecurityHandshake ("nil" for success), "" while running
    initResult,   \* error returned by Init, "" before it returns
    hsSent,       \* the request payloads transmitted, in order (history)
    hsAnswers,    \* the outcome of each key attempt's SendAndWait (history)
    \* ---- GenerateK701Key applied to one input
    keyLevel, keySeedHi, keySeedLo,
    keyOut,       \* its result [keyHi, keyLo, err], err "none" before the call
    \* ---- damage done to the recorded bytes before they are read back
    flipAt,       \* <<i, b>>: bit b of byte i after the magic was flipped; <<0, 0>> if none
    junk,         \* bytes that precede the first frame in the input
    \* ---- K701.ParseDIDBytes applied to one input
    parseDid, parseData,
    parseOut,     \* the samples it returned
    parseDone,    \* it was called
    \* ---- models.Stream with a post-processed window (Add, OnTick, PostProcess)
    points,       \* s.points
    window,       \* s.window
    streamCall,   \* the most recent call on the stream: "none" | "Add" | "OnTick"
    \* ---- models.Stream with a buffer of svg points (Add, OnTick)
    svgPoints,    \* s.svgPoints
    svgLatest,    \* s.latest
    startTimeMs,  \* s.startTimeMs
    currentTimeMs, \* s.currentTimeMs
    svgCall,      \* the most recent call on the stream: "none" | "Add" | "OnTick"
    \* ---- Replayer.Run / playOnce
    rpFrames,     \* the frames the recorder wrote to the file at r.Path, in order (history)
    rpDamage,     \* <<kind, n>>: what happened to the file after it was written (history)
    rpFile,       \* the bytes of the file at r.Path
    rpSpeed,      \* r.Speed
    rpSkipFrames, \* r.SkipFrames
    rpLoop,       \* r.Loop
    rpPc,         \* "run" (Run is about to call playOnce) | "read" (inside playOnce's loop) | "returned"
    rpPos,        \* position of playOnce's bufio.Reader in rpFile
    rpFirst,      \* playOnce's first
    rpPrevMS,     \* playOnce's prevMS
    rpFrameIndex, \* playOnce's frameIndex
    rpResult,     \* error returned by Run ("nil" for success), "" while running
    rpPasses,     \* number of playOnce calls made by Run (history)
    rpEmitted,    \* per playOnce call, the frames that reached ParseDIDBytes, each with the sleep before it (history)
    rpAdds,       \* the stream.Add calls made by playOnce, in order (history)
    \* ---- SocketCAN.Close against the three loops (Run, testerPresentLoop, receiveLoop)
    sdCtxDone,    \* p.cancel() has been called by Close
    sdConnClosed, \* p.conn.Close() has been called by Close
    sdRun,        \* Run: "top" | "scan" | "sleep" | "request" | "flush" | "returned"
    sdTp,         \* testerPresentLoop: "select" | "send" | "returned"
    sdRx,         \* receiveLoop: "select" | "receive" | "backoff" | "returned"
    sdErrCount,   \* receiveLoop's errCount
    \* ---- cmd/dashboard main
    mainDriver,   \* flags.Driver
    mainPc,       \* main: "switch" | "init" | "dashboard" | "serve" | "exited"
    mainInitErr,  \* what driver.Init returned ("nil" for success), "" before it returns
    mainRun,      \* the goroutine calling driver.Run: "none" | "running" | "nil" | "err"
    exitCode,     \* the process's exit code, NoExit while it runs
    \* ---- Arduino.Run and processBinary on the serial port
    arChunks,     \* the frames the device sent, in order, each with its kind (history)
    arIn,         \* the bytes read from the serial port
    arPos,        \* position of processBinary's bufio.Reader in arIn
    arRun,        \* Arduino.Run: "start" | "started" | "flushed" | "returned"
    arReader,     \* processBinary: "none" | "reading" | "returned"
    arFrames,     \* processBinary's frames
    arBuf,        \* frames held in logWriter's buffer
    arErr,        \* logWriter's sticky error is set
    arFile,       \* frames written to the log file
    arFileClosed, \* file.Close() has been called
    arWritten,    \* frames handed to logWriter.Write, in order (history)
    arBroadcast,  \* frames handed to ParseDIDBytes and eventHub.Broadcast, in order (history)
    arRejected,   \* the errors other than io.EOF that readBinaryFrame returned, in order (history)
    \* ---- SocketCAN.isotpRecv receiving one response
    isoPayload,   \* the payload the ECU transmits (history)
    isoPadded,    \* the ECU pads its frames to 8 bytes
    isoMaxLen,    \* the maxLen argument
    isoSentIdx,   \* index of the next frame of the ECU's transmission
    isoOdd,       \* number of frames received so far that are not the ECU's next frame (history)
    isoPc,        \* isotpRecv: "waitStart" | "waitCF" | "returned"
    isoTotal,     \* total
    isoBuf,       \* the bytes copied into buf so far, buf[:pos]
    isoExpectSN,  \* expectSN
    isoErr,       \* the error returned ("nil" for success, "panic" for a run-time panic), "" while running
    isoOut,       \* the payload returned
    isoTrace,     \* the frames consumed and sent by the call, in order (history)
    \* ---- SocketCAN.Run's scheduler, one step per loop iteration
    schResp,      \* the time every SendAndWait of the run takes, in ms
    schClock,     \* time.Now() in ms since Run was called
    schLastRead,  \* p.lastRead, NoTime for the zero time
    schStartIdx,  \* Run's startIdx
    schPolls,     \* per DID index, the number of requests issued (history)
    \* ---- receiveLoop's back-off after consecutive receive failures
    boErrCount,   \* receiveLoop's errCount
    boPc,         \* receiveLoop: "receive" | "returned"
    boDelay,      \* the backoff slept after the latest failure, an int64 in ns as four 16-bit limbs
    boPrevDelay,  \* the backoff slept after the failure before it (history)
    boSlept,      \* a failure has been followed by time.Sleep(backoff) since the last frame (history)
    \* ---- ISO-TP transmission (isotpSend)
    txPayload,    \* payload handed to isotpSend
    txPc,         \* position of the call: call, returned
    txFrames,     \* data of the frames handed to TransmitFrame, in order
    txErr,        \* error returned by isotpSend: none (not returned), nil, err
    \* ---- one UDS request and its responses (udsRequest, Run with SendAndWait)
    udsMode,      \* the client code of the request: udsRequest, poll
    udsPc,        \* position of the request: idle, send, wait, returned
    udsClock,     \* time, in ticks
    udsDeadline,  \* time at which the wait gives up
    udsScript,    \* responses the ECU still has to send for the request
    udsRsp,       \* response handed to the caller
    udsErr,       \* error handed to the caller: none, nil, nrc, timeout, send
    udsDropped,   \* frames of the ECU that found no waiter
    \* ---- one catalogue DID from request to replay (Run, writeFrame, readBinaryFrame)
    catDid,       \* DID of the poll catalogue that is read
    catData,      \* data bytes the ECU returns for it
    catMs,        \* p.millis() at the time the frame is written, <<hi, lo>>
    catPc,        \* position: idle, poll, sent, logged, replayed
    catReq,       \* RDBI request handed to SendAndWait
    catLive,      \* decode-table entries selected by the live decoding
    catLog,       \* bytes written to the log
    catReplay,    \* decode-table entries selected when the log is replayed
    \* ---- ROM dumper read loop (cmd/dumper main)
    dmRom,        \* size of the ECU's ROM: reads ending beyond it are out of range
    dmPc,         \* position: idle, loop, returned
    dmAddress,    \* address
    dmChunk,      \* chunk
    dmShrunk,     \* shrunkNearEnd
    dmLastGood,   \* lastGoodAddress
    dmWritten,    \* addresses of the bytes written to rom.bin, in order
    dmReported,   \* size handed to writeSizeFile
    \* ---- SendAndWait with its waiter, and dispatch (registerWaiter, dispatch)
    swCall,       \* number of SendAndWait calls made; the channel of a call has its number
    swPc,         \* position of the current call: off, idle, registered, waiting
    swWaiters,    \* p.waiters[CanIdRsp]: the registered channels, in list order
    swBuf,        \* frames buffered in the channel of each call
    swBus,        \* frames on the response id not yet read by receiveLoop
    swEcu,        \* number of frames the ECU has sent
    swResult,     \* how the last call returned: none, frame, sendErr, ctxErr
    swOut,        \* frame the last call returned, 0 if none
    \* ---- tick loop of the server against the driver's Stream.Add (Server.tickLoop)
    tkPc,         \* position of the tick loop: off, ontick, render, clear
    tkPoints,     \* s.svgPoints of the stream: the points, by the number of their Add
    tkAdded,      \* number of Add calls made by the driver
    tkTicks,      \* number of ticks completed
    tkRendered    \* for each point, the number of ticks whose render step read it

codecVars == <<logFile, wrFrames, rdPos, rdOut, codecPhase>>

hubVars == <<events, eventsClosed, subs, next, last, hasLast, chanBuf, chanClosed,
             runPc, runEvent, runSubs, hubPanic, recvd, nBroadcast, hubDropped,
             subDropped, cancelled, subAt, subSnap>>

pollVars == <<clock, ctxDone, pollPc, startIdx, readyIdx, wakeAt, pollNow, deadline,
              lastRead, lastChk, lastLen, waiterOn, waitCh, busRsp, tpNext, tpSent,
              tpMidRequest, streamAdds, latest, pollLog, issuedAt, rspHist, polled>>

hsVars == <<hsLevel, hsPc, hsSeed, hsKey, hsAttempt, hsResult, initResult, hsSent, hsAnswers>>

keyVars == <<keyLevel, keySeedHi, keySeedLo, keyOut>>

damageVars == <<flipAt, junk>>

parseVars == <<parseDid, parseData, parseOut, parseDone>>

streamVars == <<points, window, streamCall>>

svgVars == <<svgPoints, svgLatest, startTimeMs, currentTimeMs, svgCall>>

replayVars == <<rpFrames, rpDamage, rpFile, rpSpeed, rpSkipFrames, rpLoop, rpPc, rpPos, rpFirst, rpPrevMS,
                rpFrameIndex, rpResult, rpPasses, rpEmitted, rpAdds>>

sdVars == <<sdCtxDone, sdConnClosed, sdRun, sdTp, sdRx, sdErrCount>>

mainVars == <<mainDriver, mainPc, mainInitErr, mainRun, exitCode>>

arVars == <<arChunks, arIn, arPos, arRun, arReader, arFrames, arBuf, arErr, arFile, arFileClosed, arWritten, arBroadcast, arRejected>>

isoVars == <<isoPayload, isoPadded, isoMaxLen, isoSentIdx, isoOdd, isoPc, isoTotal, isoBuf, isoExpectSN, isoErr, isoOut, isoTrace>>

schVars == <<schResp, schClock, schLastRead, schStartIdx, schPolls>>

boVars == <<boErrCount, boPc, boDelay, boPrevDelay, boSlept>>

txVars == <<txPayload, txPc, txFrames, txErr>>

udsVars == <<udsMode, udsPc, udsClock, udsDeadline, udsScript, udsRsp, udsErr, udsDropped>>

catVars == <<catDid, catData, catMs, catPc, catReq, catLive, catLog, catReplay>>

dmVars == <<dmRom, dmPc, dmAddress, dmChunk, dmShrunk, dmLastGood, dmWritten, dmReported>>

swVars == <<swCall, swPc, swWaiters, swBuf, swBus, swEcu, swResult, swOut>>

tkVars == <<tkPc, tkPoints, tkAdded, tkTicks, tkRendered>>

vars == <<codecVars, hubVars, pollVars, hsVars, keyVars, damageVars, parseVars,
         streamVars, svgVars, replayVars, sdVars, mainVars, arVars, isoVars, schVars,
    boVars, txVars, udsVars, catVars, dmVars, swVars, tkVars>>

\* what each component's actions leave alone
notCodecVars == <<hubVars, pollVars, hsVars, keyVars, damageVars, parseVars,
    streamVars, svgVars, replayVars, sdVars, mainVars, arVars, isoVars, schVars, boVars,
    txVars, udsVars, catVars, dmVars, swVars, tkVars>>
notHubVars == <<codecVars, pollVars, hsVars, keyVars, damageVars, parseVars,
    streamVars, svgVars, replayVars, sdVars, mainVars, arVars, isoVars, schVars, boVars,
    txVars, udsVars, catVars, dmVars, swVars, tkVars>>
notPollVars == <<codecVars, hubVars, hsVars, keyVars, damageVars, parseVars,
    streamVars, svgVars, replayVars, sdVars, mainVars, arVars, isoVars, schVars, boVars,
    txVars, udsVars, catVars, dmVars, swVars, tkVars>>
notHsVars == <<codecVars, hubVars, pollVars, keyVars, damageVars, parseVars,
    streamVars, svgVars, replayVars, sdVars, mainVars, arVars, isoVars, schVars, boVars,
    txVars, udsVars, catVars, dmVars, swVars, tkVars>>
notParseVars == <<codecVars, hubVars, pollVars, hsVars, keyVars, damageVars,
    streamVars, svgVars, replayVars, sdVars, mainVars, arVars, isoVars, schVars, boVars,
    txVars, udsVars, catVars, dmVars, swVars, tkVars>>
notKeyVars == <<codecVars, hubVars, pollVars, hsVars, damageVars, parseVars,
    streamVars, svgVars, replayVars, sdVars, mainVars, arVars, isoVars, schVars, boVars,
    txVars, udsVars, catVars, dmVars, swVars, tkVars>>
notStreamVars == <<codecVars, hubVars, pollVars, hsVars, keyVars, damageVars, parseVars,
    svgVars, replayVars, sdVars, mainVars, arVars, isoVars, schVars, boVars, txVars,
    udsVars, catVars, dmVars, swVars, tkVars>>
notSvgVars == <<codecVars, hubVars, pollVars, hsVars, keyVars, damageVars, parseVars,
    streamVars, replayVars, sdVars, mainVars, arVars, isoVars, schVars, boVars, txVars,
    udsVars, catVars, dmVars, swVars, tkVars>>
notReplayVars == <<codecVars, hubVars, pollVars, hsVars, keyVars, damageVars, parseVars,
    streamVars, svgVars, sdVars, mainVars, arVars, isoVars, schVars, boVars, txVars,
    udsVars, catVars, dmVars, swVars, tkVars>>
notSdVars == <<codecVars, hubVars, pollVars, hsVars, keyVars, damageVars, parseVars,
    streamVars, svgVars, replayVars, mainVars, arVars, isoVars, schVars, boVars, txVars,
    udsVars, catVars, dmVars, swVars, tkVars>>
notMainVars == <<codecVars, hubVars, pollVars, hsVars, keyVars, damageVars, parseVars,
    streamVars, svgVars, replayVars, sdVars, arVars, isoVars, schVars, boVars, txVars,
    udsVars, catVars, dmVars, swVars, tkVars>>
notArVars == <<codecVars, hubVars, pollVars, hsVars, keyVars, damageVars, parseVars,
    streamVars, svgVars, replayVars, sdVars, mainVars, isoVars, schVars, boVars, txVars,
    udsVars, catVars, dmVars, swVars, tkVars>>
notIsoVars == <<codecVars, hubVars, pollVars, hsVars, keyVars, damageVars, parseVars,
    streamVars, svgVars, replayVars, sdVars, mainVars, arVars, schVars, boVars, txVars,
    udsVars, catVars, dmVars, swVars, tkVars>>
notSchVars == <<codecVars, hubVars, pollVars, hsVars, keyVars, damageVars, parseVars,
    streamVars, svgVars, replayVars, sdVars, mainVars, arVars, isoVars, boVars, txVars,
    udsVars, catVars, dmVars, swVars, tkVars>>
notBoVars == <<codecVars, hubVars, pollVars, hsVars, keyVars, damageVars, parseVars,
    streamVars, svgVars, replayVars, sdVars, mainVars, arVars, isoVars, schVars, txVars,
    udsVars, catVars, dmVars, swVars, tkVars>>
notTxVars == <<codecVars, hubVars, pollVars, hsVars, keyVars, damageVars, parseVars,
    streamVars, svgVars, replayVars, sdVars, mainVars, arVars, isoVars, schVars, boVars,
    udsVars, catVars, dmVars, swVars, tkVars>>
notUdsVars == <<codecVars, hubVars, pollVars, hsVars, keyVars, damageVars, parseVars,
    streamVars, svgVars, replayVars, sdVars, mainVars, arVars, isoVars, schVars, boVars,
    txVars, catVars, dmVars, swVars, tkVars>>
notCatVars == <<codecVars, hubVars, pollVars, hsVars, keyVars, damageVars, parseVars,
    streamVars, svgVars, replayVars, sdVars, mainVars, arVars, isoVars, schVars, boVars,
    txVars, udsVars, dmVars, swVars, tkVars>>
notDmVars == <<codecVars, hubVars, pollVars, hsVars, keyVars, damageVars, parseVars,
    streamVars, svgVars, replayVars, sdVars, mainVars, arVars, isoVars, schVars, boVars,
    txVars, udsVars, catVars, swVars, tkVars>>
notSwVars == <<codecVars, hubVars, pollVars, hsVars, keyVars, damageVars, parseVars,
    streamVars, svgVars, replayVars, sdVars, mainVars, arVars, isoVars, schVars, boVars,
    txVars, udsVars, catVars, dmVars, tkVars>>
notTkVars == <<codecVars, hubVars, pollVars, hsVars, keyVars, damageVars, parseVars,
    streamVars, svgVars, replayVars, sdVars, mainVars, arVars, isoVars, schVars, boVars, txVars, udsVars, catVars, dmVars, swVars>>

----------------------------------------------------------------------------
(* Byte arithmetic *)

\* bit i (0 = least significant) of x
Bit(x, i) == (x \div (2 ^ i)) % 2

\* bitwise XOR of two bytes
Xor8(a, b) ==
    ((Bit(a, 0) + Bit(b, 0)) % 2) + (((Bit(a, 1) + Bit(b, 1)) % 2) * 2 +
    (((Bit(a, 2) + Bit(b, 2)) % 2) * 4 + (((Bit(a, 3) + Bit(b, 3)) % 2) * 8 +
    (((Bit(a, 4) + Bit(b, 4)) % 2) * 16 + (((Bit(a, 5) + Bit(b, 5)) % 2) * 32 +
    (((Bit(a, 6) + Bit(b, 6)) % 2) * 64 + ((Bit(a, 7) + Bit(b, 7)) % 2) * 128))))))

Byte(x) == x % 256

\* the sequence s[from..to] (empty when to < from)
Slice(s, from, to) == [i \in 1..(to - from + 1) |-> s[from + i - 1]]

----------------------------------------------------------------------------
(* CRC-8-CCITT, poly 0x07, init 0x00: writer side (socket_can.go) *)

\* one iteration of the shift loop
crc8CCITTShift(crc) ==
    IF crc >= 128 THEN Xor8(Byte(crc * 2), 7) ELSE Byte(crc * 2)

\* the eight iterations of the loop applied to every value of crc ^ b
crc8CCITTLoop ==
    [x \in 0..255 |->
        crc8CCITTShift(crc8CCITTShift(crc8CCITTShift(crc8CCITTShift(
        crc8CCITTShift(crc8CCITTShift(crc8CCITTShift(crc8CCITTShift(x))))))))]

crc8CCITTUpdate(crc, b) == crc8CCITTLoop[Xor8(crc, b)]

\* for _, b := range buf { crc = crc8CCITTUpdate(crc, b) }
crc8CCITTBuf(init, buf) ==
    LET loop[crc \in 0..255, i \in 1..(Len(buf) + 1)] ==
            IF i > Len(buf) THEN crc
            ELSE loop[crc8CCITTUpdate(crc, buf[i]), i + 1]
    IN  loop[init, 1]

(* CRC-8-CCITT: reader side (binary.go) *)

crc8Shift(crc) ==
    IF crc >= 128 THEN Xor8(Byte(crc * 2), 7) ELSE Byte(crc * 2)

crc8Loop ==
    [x \in 0..255 |->
        crc8Shift(crc8Shift(crc8Shift(crc8Shift(
        crc8Shift(crc8Shift(crc8Shift(crc8Shift(x))))))))]

crc8Update(crc, b) == crc8Loop[Xor8(crc, b)]

\* for _, b := range buffer { crc = crc8Update(crc, b) }
crc8UpdateBuf(crc, buffer) ==
    LET loop[c \in 0..255, i \in 1..(Len(buffer) + 1)] ==
            IF i > Len(buffer) THEN c
            ELSE loop[crc8Update(c, buffer[i]), i + 1]
    IN  loop[crc, 1]

----------------------------------------------------------------------------
(* Frame writer: SocketCAN.writeFrame(did uint32, data []byte) with ms = p.millis() *)

magicBytes == <<170, 85>>     \* 0xAA 0x55

\* ms is a uint32 kept as two 16-bit halves <<hi, lo>> (value hi * 2^16 + lo),
\* because the model's integers are 32-bit signed
writeFrameHdr(ms, did, data) ==
    << Byte(ms[2]), Byte(ms[2] \div 256), Byte(ms[1]), Byte(ms[1] \div 256),
       Byte(did \div 256), Byte(did),
       Byte(Len(data)) >>

writeFrame(ms, did, data) ==
    LET hdr == writeFrameHdr(ms, did, data)
        c1  == crc8CCITTBuf(0, Slice(hdr, 1, 4))
        c2  == crc8CCITTUpdate(c1, hdr[5])
        c3  == crc8CCITTUpdate(c2, hdr[6])
        c4  == crc8CCITTUpdate(c3, hdr[7])
        crc == crc8CCITTBuf(c4, data)
    IN  magicBytes \o hdr \o data \o <<crc>>

----------------------------------------------------------------------------
(* Frame reader: readBinaryFrame over the bytes buf, reader positioned at pos *)

NoFrame(err, pos) ==
    [err |-> err, did |-> 0, value |-> <<>>, timestamp |-> <<0, 0>>, pos |-> pos]

RECURSIVE resyncMagic(_, _)
\* the resync loop: position after the magic, or 0 when ReadByte hits end of input
resyncMagic(buf, pos) ==
    IF pos > Len(buf) THEN 0
    ELSE IF buf[pos] # magicBytes[1] THEN resyncMagic(buf, pos + 1)
    ELSE IF pos + 1 > Len(buf) THEN 0
    ELSE IF buf[pos + 1] = magicBytes[2] THEN pos + 2
    ELSE resyncMagic(buf, pos + 2)

\* io.ReadFull(reader, n bytes) at pos: io.EOF when nothing is left, ErrUnexpectedEOF when short
ReadFullErr(buf, pos, n) ==
    IF pos + n - 1 <= Len(buf) THEN "nil"
    ELSE IF pos > Len(buf) THEN "EOF"
    ELSE "ErrUnexpectedEOF"

\* uint32(header[0]) | header[1]<<8 | header[2]<<16 | header[3]<<24, as <<hi, lo>>
headerMillis(header) ==
    << header[3] + header[4] * 256, header[1] + header[2] * 256 >>

\* mutant: the DID is read little-endian
headerDid_littleEndian(header) == header[5] + header[6] * 256

\* uint64(uint16(header[4])<<8 | uint16(header[5]))
headerDid(header) == header[5] * 256 + header[6]

\* mutant: the reader does not compare the CRC
readBinaryFrame_noCrc(buf, pos) ==
    LET p1 == resyncMagic(buf, pos)
    IN  IF p1 = 0 THEN NoFrame("EOF", Len(buf) + 1)
        ELSE IF ReadFullErr(buf, p1, 7) # "nil"
             THEN NoFrame(ReadFullErr(buf, p1, 7), Len(buf) + 1)
        ELSE
          LET header     == Slice(buf, p1, p1 + 6)
              dataLength == header[7]
              p2         == p1 + 7
          IN  IF dataLength > 64 THEN NoFrame("badLen", p2)
              ELSE IF ReadFullErr(buf, p2, dataLength + 1) # "nil"
                   THEN NoFrame(ReadFullErr(buf, p2, dataLength + 1), Len(buf) + 1)
              ELSE [err |-> "nil", did |-> headerDid(header),
                    value |-> Slice(buf, p2, p2 + dataLength - 1),
                    timestamp |-> headerMillis(header), pos |-> p2 + dataLength + 1]

readBinaryFrame(buf, pos) ==
    LET p1 == resyncMagic(buf, pos)
    IN  IF p1 = 0 THEN NoFrame("EOF", Len(buf) + 1)
        ELSE IF ReadFullErr(buf, p1, 7) # "nil"
             THEN NoFrame(ReadFullErr(buf, p1, 7), Len(buf) + 1)
        ELSE
          LET header     == Slice(buf, p1, p1 + 6)
              dataLength == header[7]
              p2         == p1 + 7
          IN  IF dataLength > 64 THEN NoFrame("badLen", p2)
              ELSE IF ReadFullErr(buf, p2, dataLength + 1) # "nil"
                   THEN NoFrame(ReadFullErr(buf, p2, dataLength + 1), Len(buf) + 1)
              ELSE
                LET data  == Slice(buf, p2, p2 + dataLength - 1)
                    crcRx == buf[p2 + dataLength]
                    c1    == crc8UpdateBuf(0, Slice(header, 1, 4))
                    c2    == crc8Update(c1, header[5])
                    c3    == crc8Update(c2, header[6])
                    c4    == crc8Update(c3, header[7])
                    crc   == crc8UpdateBuf(c4, data)
                IN  IF crc # crcRx THEN NoFrame("badCrc", p2 + dataLength + 1)
                    ELSE [err |-> "nil", did |-> headerDid(header), value |-> data,
                          timestamp |-> headerMillis(header), pos |-> p2 + dataLength + 1]

----------------------------------------------------------------------------
(* Event hub: events/events.go *)

MaxBroadcasts == 3     \* Broadcast calls in a run; samples are numbered 1..MaxBroadcasts
MaxSubs == 2           \* Subscribe calls in a run
HubQueueCap == 2       \* capacity of h.events (128 in NewHub), scaled down
SubQueueCap == 1       \* capacity of a subscriber channel (16 in Subscribe), scaled down

SubIds == 0..(MaxSubs - 1)

\* mutant: the channel holds one sample less than its capacity
chanOffer_offByOne(ch, e, cap) == IF Len(ch) < cap - 1 THEN Append(ch, e) ELSE ch

\* select { case ch <- e: default: } on an open buffered channel of capacity cap
chanOffer(ch, e, cap) == IF Len(ch) < cap THEN Append(ch, e) ELSE ch

\* mutant: a receive takes the newest sample
chanRecv_newest(ch) == ch[Len(ch)]

\* the value a receive takes from a buffered channel
chanRecv(ch) == Head(ch)

HubInit ==
    /\ events = <<>>
    /\ eventsClosed = FALSE
    /\ subs = {}
    /\ next = 0
    /\ last = 0
    /\ hasLast = FALSE
    /\ chanBuf = [s \in SubIds |-> <<>>]
    /\ chanClosed = [s \in SubIds |-> FALSE]
    /\ runPc = "recv"
    /\ runEvent = 0
    /\ runSubs = {}
    /\ hubPanic = FALSE
    /\ recvd = [s \in SubIds |-> <<>>]
    /\ nBroadcast = 0
    /\ hubDropped = {}
    /\ subDropped = [s \in SubIds |-> {}]
    /\ cancelled = [s \in SubIds |-> FALSE]
    /\ subAt = [s \in SubIds |-> 0]
    /\ subSnap = [s \in SubIds |-> 0]

\* EventHub.Broadcast(event): enqueue, or drop if the hub queue is full;
\* a send on the closed h.events panics
Broadcast ==
    /\ ~hubPanic
    /\ nBroadcast < MaxBroadcasts
    /\ LET event == nBroadcast + 1
       IN  IF eventsClosed
           THEN /\ hubPanic' = TRUE
                /\ UNCHANGED <<events, nBroadcast, hubDropped>>
           ELSE /\ events' = chanOffer(events, event, HubQueueCap)
                /\ hubDropped' = IF events' = events THEN hubDropped \cup {event}
                                 ELSE hubDropped
                /\ nBroadcast' = event
                /\ UNCHANGED hubPanic
    /\ UNCHANGED <<eventsClosed, subs, next, last, hasLast, chanBuf, chanClosed,
                   runPc, runEvent, runSubs, recvd, subDropped, cancelled, subAt, subSnap>>
    /\ UNCHANGED notHubVars

\* mutant: Subscribe never delivers the cached sample
subscribeSnapshot_none(hasL, l) == <<>>

\* what Subscribe puts into the fresh channel
subscribeSnapshot(hasL, l) == IF hasL THEN <<l>> ELSE <<>>

\* EventHub.Subscribe(), the whole call under h.mu
Subscribe ==
    /\ ~hubPanic
    /\ next < MaxSubs
    /\ LET id == next
       IN  /\ next' = next + 1
           /\ chanBuf' = [chanBuf EXCEPT ![id] = subscribeSnapshot(hasLast, last)]
           /\ subs' = subs \cup {id}
           /\ subAt' = [subAt EXCEPT ![id] = nBroadcast]
           /\ subSnap' = [subSnap EXCEPT ![id] = IF hasLast THEN last ELSE 0]
    /\ UNCHANGED <<events, eventsClosed, last, hasLast, chanClosed, runPc, runEvent,
                   runSubs, hubPanic, recvd, nBroadcast, hubDropped, subDropped, cancelled>>
    /\ UNCHANGED notHubVars

\* the cancel function returned by Subscribe, under h.mu
Cancel(id) ==
    /\ ~hubPanic
    /\ id < next
    /\ id \in subs
    /\ chanClosed' = [chanClosed EXCEPT ![id] = TRUE]
    /\ subs' = subs \ {id}
    /\ cancelled' = [cancelled EXCEPT ![id] = TRUE]
    /\ UNCHANGED <<events, eventsClosed, next, last, hasLast, chanBuf, runPc, runEvent,
                   runSubs, hubPanic, recvd, nBroadcast, hubDropped, subDropped,
                   subAt, subSnap>>
    /\ UNCHANGED notHubVars

\* run: receive one event from h.events, then record last and snapshot h.subs under h.mu
RunReceive ==
    /\ ~hubPanic
    /\ runPc = "recv"
    /\ events # <<>>
    /\ LET event == chanRecv(events)
       IN  /\ events' = Tail(events)
           /\ last' = event
           /\ hasLast' = TRUE
           /\ runEvent' = event
           /\ runSubs' = subs
           /\ runPc' = IF subs = {} THEN "recv" ELSE "fanout"
    /\ UNCHANGED <<eventsClosed, subs, next, chanBuf, chanClosed, hubPanic, recvd,
                   nBroadcast, hubDropped, subDropped, cancelled, subAt, subSnap>>
    /\ UNCHANGED notHubVars

\* run: one iteration of the fan-out loop, without the lock;
\* a send on a channel that cancel has closed panics
RunFanOut(id) ==
    /\ ~hubPanic
    /\ runPc = "fanout"
    /\ id \in runSubs
    /\ IF chanClosed[id]
       THEN /\ hubPanic' = TRUE
            /\ UNCHANGED <<chanBuf, subDropped, runSubs, runPc>>
       ELSE /\ chanBuf' = [chanBuf EXCEPT ![id] = chanOffer(@, runEvent, SubQueueCap)]
            /\ subDropped' = IF chanBuf'[id] = chanBuf[id]
                             THEN [subDropped EXCEPT ![id] = @ \cup {runEvent}]
                             ELSE subDropped
            /\ runSubs' = runSubs \ {id}
            /\ runPc' = IF runSubs = {id} THEN "recv" ELSE "fanout"
            /\ UNCHANGED hubPanic
    /\ UNCHANGED <<events, eventsClosed, subs, next, last, hasLast, chanClosed, runEvent,
                   recvd, nBroadcast, hubDropped, cancelled, subAt, subSnap>>
    /\ UNCHANGED notHubVars

\* run: h.events is closed and drained; close every subscriber channel under h.mu
RunExit ==
    /\ ~hubPanic
    /\ runPc = "recv"
    /\ events = <<>>
    /\ eventsClosed
    /\ chanClosed' = [s \in SubIds |-> chanClosed[s] \/ s \in subs]
    /\ subs' = {}
    /\ runPc' = "done"
    /\ UNCHANGED <<events, eventsClosed, next, last, hasLast, chanBuf, runEvent, runSubs,
                   hubPanic, recvd, nBroadcast, hubDropped, subDropped, cancelled, subAt,
                   subSnap>>
    /\ UNCHANGED notHubVars

\* EventHub.Close(): close(h.events); closing it twice panics
Close ==
    /\ ~hubPanic
    /\ IF eventsClosed
       THEN hubPanic' = TRUE /\ UNCHANGED eventsClosed
       ELSE eventsClosed' = TRUE /\ UNCHANGED hubPanic
    /\ UNCHANGED <<events, subs, next, last, hasLast, chanBuf, chanClosed, runPc,
                   runEvent, runSubs, recvd, nBroadcast, hubDropped, subDropped, cancelled,
                   subAt, subSnap>>
    /\ UNCHANGED notHubVars

\* a subscriber takes the next sample from its channel
SubscriberRecv(id) ==
    /\ ~hubPanic
    /\ id < next
    /\ chanBuf[id] # <<>>
    /\ recvd' = [recvd EXCEPT ![id] = Append(@, chanRecv(chanBuf[id]))]
    /\ chanBuf' = [chanBuf EXCEPT ![id] = Tail(@)]
    /\ UNCHANGED <<events, eventsClosed, subs, next, last, hasLast, chanClosed, runPc,
                   runEvent, runSubs, hubPanic, nBroadcast, hubDropped, subDropped,
                   cancelled, subAt, subSnap>>
    /\ UNCHANGED notHubVars

RunStep == RunReceive \/ (\E id \in SubIds : RunFanOut(id)) \/ RunExit

HubNext ==
    \/ Broadcast
    \/ Subscribe
    \/ \E id \in SubIds : Cancel(id)
    \/ RunReceive
    \/ \E id \in SubIds : RunFanOut(id)
    \/ RunExit
    \/ Close
    \/ \E id \in SubIds : SubscriberRecv(id)

\* every sample ever put into the channel of subscriber id, in channel order
Delivered(id) == recvd[id] \o chanBuf[id]

----------------------------------------------------------------------------
(* ECU decode table and poll catalogue: ecus (K701) *)

RpmDidK701 == 256          \* 0x0100
GearDidK701 == 49          \* 0x0031
CoolantDidK701 == 9        \* 0x0009
ThrottleDidK701 == 1       \* 0x0001
SideStandDidK701 == 66     \* 0x0042

RPM_STREAM == "RPM"
GEAR_STREAM == "Gear"
COOLANT_STREAM == "Coolant"
THROTTLE_STREAM == "Computed-Throttle"
SIDESTAND_STREAM == "Side-Stand"

StreamKeys == {RPM_STREAM, GEAR_STREAM, COOLANT_STREAM}

\* store.DashboardStreams[key].Discrete()
Discrete(key) == key = GEAR_STREAM

\* the DIDs of the catalogue the model polls, with their intervals in ms
DIDsToPollIntervalK701 ==
    (RpmDidK701 :> 10) @@ (GearDidK701 :> 10) @@ (CoolantDidK701 :> 1000)

\* ecus.DIDsK701 (one order of the map's keys), indexed from 0
DIDsK701 == [i \in 0..2 |-> <<RpmDidK701, GearDidK701, CoolantDidK701>>[i + 1]]

NumDids == 3

\* mutant: the two bytes are combined little-endian
u16be_littleEndian(dataBytes) == dataBytes[1] + dataBytes[2] * 256

\* raw := int(dataBytes[0])<<8 | int(dataBytes[1])
u16be(dataBytes) == dataBytes[1] * 256 + dataBytes[2]

\* utils.RoundToXDp(num / den, dp) for num >= 0, as the fraction <<n, 10^dp>>
RoundToXDp(num, den, dp) ==
    << ((2 * num * (10 ^ dp)) + den) \div (2 * den), 10 ^ dp >>

\* utils.BoolToFloat
BoolToFloat(b) == IF b THEN <<1, 1>> ELSE <<0, 1>>

\* K701.ParseDIDBytes: values are exact fractions <<numerator, denominator>>
ParseDIDBytes(did, dataBytes) ==
    CASE did = RpmDidK701 ->
            IF Len(dataBytes) >= 2
            THEN << [StreamKey |-> RPM_STREAM, DidValue |-> <<u16be(dataBytes), 4>>] >>
            ELSE <<>>
      [] did = ThrottleDidK701 ->
            IF Len(dataBytes) >= 1
            THEN << [StreamKey |-> THROTTLE_STREAM,
                     DidValue |-> RoundToXDp(dataBytes[Len(dataBytes)] * 100, 255, 1)] >>
            ELSE <<>>
      [] did = SideStandDidK701 ->
            IF Len(dataBytes) >= 2
            THEN << [StreamKey |-> SIDESTAND_STREAM,
                     DidValue |-> BoolToFloat(dataBytes[2] = 255)] >>
            ELSE <<>>
      [] did = CoolantDidK701 ->
            << [StreamKey |-> COOLANT_STREAM,
                DidValue |-> << (IF Len(dataBytes) >= 2 THEN u16be(dataBytes)
                                 ELSE IF Len(dataBytes) = 1 THEN dataBytes[1]
                                 ELSE 0) - 40, 1 >>] >>
      [] did = GearDidK701 ->
            IF Len(dataBytes) >= 2
            THEN << [StreamKey |-> GEAR_STREAM, DidValue |-> <<dataBytes[2], 1>>] >>
            ELSE <<>>
      [] OTHER -> <<>>

----------------------------------------------------------------------------
(* SocketCAN driver: Run, SendAndWait, receiveLoop, dispatch, testerPresentLoop *)

TickMs == 25           \* granularity of the model's clock
MaxClock == 75         \* the model follows the driver for this many ms
MaxPolls == 4          \* RDBI requests issued in a run

DefaultRespTimeout == 50
TesterPresentPeriod == 2000
SubscriberBufferSize == 4
SidReadDataByIdentifier == 34      \* 0x22
SidTesterPresent == 62             \* 0x3E

NoTime == -1           \* the zero time.Time (IsZero)
MaxDuration == 2147483647          \* Run's initial minWait, the largest duration

\* the time between Init and Run is arbitrary, so the first tester-present
\* tick falls anywhere in Run's timeline: early, or after the model's horizon
TpPhases == {2 * TickMs, TesterPresentPeriod}

\* payloads the ECU may return for a DID
EcuPayloads(did) ==
    CASE did = RpmDidK701 -> {<<15, 160>>, <<160, 15>>, <<15>>}
      [] did = GearDidK701 -> {<<0, 2>>, <<0, 3>>}
      [] did = CoolantDidK701 -> {<<0, 90>>, <<>>}

\* sendRaw: the ISO-TP single frame that carries payload (PCI byte = length)
sendRawFrame(payload) == <<Len(payload)>> \o payload

\* the RDBI request of Run for did
rdbiRequest(did) == <<SidReadDataByIdentifier, Byte(did \div 256), Byte(did)>>

\* frames the ECU may send in answer to an RDBI request: a positive response
\* 62 <did> <data>, or the negative response 7F 22 31
EcuAnswers(req) ==
    { sendRawFrame(<<98, req[2], req[3]>> \o d) : d \in EcuPayloads(req[2] * 256 + req[3]) }
        \cup { sendRawFrame(<<127, 34, 49>>) }

\* SendAndWait's unwrapping of a received single frame: [err, out]
unwrapSingleFrame(f) ==
    IF Len(f) = 0 THEN [err |-> "empty frame", out |-> <<>>]
    ELSE LET L == f[1] % 16
         IN  IF L > 7 \/ Len(f) < 1 + L
             THEN [err |-> "invalid single-frame length", out |-> <<>>]
             ELSE [err |-> "nil", out |-> Slice(f, 2, 1 + L)]

\* chk ^= b over data
xorChecksum(data) ==
    LET loop[chk \in 0..255, i \in 1..(Len(data) + 1)] ==
            IF i > Len(data) THEN chk ELSE loop[Xor8(chk, data[i]), i + 1]
    IN  loop[0, 1]

\* mutant: the fingerprint is compared with the stored length and vice versa
responseChanged_swapped(chk, len, prevChk, prevLen) == chk # prevLen \/ Byte(len) # prevChk

\* changed := (chk != p.lastChk[readyIdx]) || (byte(len(data)) != p.lastLen[readyIdx])
responseChanged(chk, len, prevChk, prevLen) == chk # prevChk \/ Byte(len) # prevLen

RECURSIVE scanDids_since(_, _, _, _, _)
\* mutant: time.Since(next) in place of time.Until(next)
scanDids_since(i, start, lr, t, minWait) ==
    IF i >= NumDids THEN [readyIdx |-> -1, minWait |-> minWait]
    ELSE LET idx  == (start + i) % NumDids
             wait == t - (lr[idx] + DIDsToPollIntervalK701[DIDsK701[idx]])
         IN  IF lr[idx] = NoTime THEN [readyIdx |-> idx, minWait |-> minWait]
             ELSE IF wait <= 0 THEN [readyIdx |-> idx, minWait |-> minWait]
             ELSE scanDids_since(i + 1, start, lr, t, IF wait < minWait THEN wait ELSE minWait)

RECURSIVE scanDids(_, _, _, _, _)
\* Run's scan loop from iteration i on: [readyIdx, minWait]
scanDids(i, start, lr, t, minWait) ==
    IF i >= NumDids THEN [readyIdx |-> -1, minWait |-> minWait]
    ELSE LET idx  == (start + i) % NumDids
             wait == (lr[idx] + DIDsToPollIntervalK701[DIDsK701[idx]]) - t
         IN  IF lr[idx] = NoTime THEN [readyIdx |-> idx, minWait |-> minWait]
             ELSE IF wait <= 0 THEN [readyIdx |-> idx, minWait |-> minWait]
             ELSE scanDids(i + 1, start, lr, t, IF wait < minWait THEN wait ELSE minWait)

\* the DID indexes whose poll is due at time t: never read, or the interval has passed
dueDids(lr, t) ==
    {i \in 0..(NumDids - 1) :
        lr[i] = NoTime \/ (lr[i] + DIDsToPollIntervalK701[DIDsK701[i]]) - t <= 0}

\* mutant: every scan starts at the first DID
nextStartIdx_first(ready) == 0

\* startIdx = (readyIdx + 1) % n
nextStartIdx(ready) == (ready + 1) % NumDids

RECURSIVE addDidData(_, _, _, _, _)
\* the loop over didData of Run: [adds, latest] after the stream.Add calls
addDidData(didData, idx, t, adds, lat) ==
    IF didData = <<>> THEN [adds |-> adds, latest |-> lat]
    ELSE LET d   == Head(didData)
             key == d.StreamKey
             a1  == IF Discrete(key)
                    THEN Append(adds, [idx |-> idx, key |-> key, ts |-> t,
                                       value |-> lat[key], carry |-> TRUE])
                    ELSE adds
             a2  == Append(a1, [idx |-> idx, key |-> key, ts |-> t,
                                value |-> d.DidValue, carry |-> FALSE])
         IN  IF key # "" /\ key \in StreamKeys
             THEN addDidData(Tail(didData), idx, t, a2, [lat EXCEPT ![key] = d.DidValue])
             ELSE addDidData(Tail(didData), idx, t, adds, lat)

PollInit ==
    /\ clock = 0
    /\ ctxDone = FALSE
    /\ pollPc = "scan"
    /\ startIdx = 0
    /\ readyIdx = -1
    /\ wakeAt = 0
    /\ pollNow = 0
    /\ deadline = 0
    /\ lastRead = [i \in 0..(NumDids - 1) |-> NoTime]
    /\ lastChk = [i \in 0..(NumDids - 1) |-> 0]
    /\ lastLen = [i \in 0..(NumDids - 1) |-> 0]
    /\ waiterOn = FALSE
    /\ waitCh = <<>>
    /\ busRsp = <<>>
    /\ tpNext \in TpPhases
    /\ tpSent = 0
    /\ tpMidRequest = 0
    /\ streamAdds = <<>>
    /\ latest = [k \in StreamKeys |-> <<0, 1>>]
    /\ pollLog = <<>>
    /\ issuedAt = [i \in 0..(NumDids - 1) |-> <<>>]
    /\ rspHist = [i \in 0..(NumDids - 1) |-> <<>>]
    /\ polled = <<>>

\* the driver is not running: the state the other specifications keep it in
PollIdle == PollInit /\ tpNext = TesterPresentPeriod

\* time passes
Tick ==
    /\ clock + TickMs <= MaxClock
    /\ clock' = clock + TickMs
    /\ UNCHANGED <<ctxDone, pollPc, startIdx, readyIdx, wakeAt, pollNow, deadline,
                   lastRead, lastChk, lastLen, waiterOn, waitCh, busRsp, tpNext, tpSent,
                   tpMidRequest, streamAdds, latest, pollLog, issuedAt, rspHist,
                   polled>>
    /\ UNCHANGED notPollVars

\* Run, top of the loop: return if the context is done, else scan for a due DID
RunScan ==
    /\ pollPc = "scan"
    /\ IF ctxDone
       THEN /\ pollPc' = "returned"
            /\ UNCHANGED <<readyIdx, wakeAt, polled>>
       ELSE LET r == scanDids(0, startIdx, lastRead, clock, MaxDuration)
            IN  /\ readyIdx' = r.readyIdx
                /\ IF r.readyIdx = -1
                   THEN pollPc' = "sleep" /\ wakeAt' = clock + r.minWait
                        /\ UNCHANGED polled
                   ELSE pollPc' = "send" /\ UNCHANGED wakeAt
                        /\ polled' = Append(polled, [idx |-> r.readyIdx, start |-> startIdx,
                                                     due |-> dueDids(lastRead, clock)])
    /\ UNCHANGED <<clock, ctxDone, startIdx, pollNow, deadline, lastRead, lastChk, lastLen,
                   waiterOn, waitCh, busRsp, tpNext, tpSent, tpMidRequest, streamAdds,
                   latest, pollLog, issuedAt, rspHist>>
    /\ UNCHANGED notPollVars

\* Run, the select on the minWait timer and p.ctx.Done()
RunWake ==
    /\ pollPc = "sleep"
    /\ \/ ctxDone /\ pollPc' = "returned"
       \/ clock >= wakeAt /\ pollPc' = "scan"
    /\ UNCHANGED <<clock, ctxDone, startIdx, readyIdx, wakeAt, pollNow, deadline,
                   lastRead, lastChk, lastLen, waiterOn, waitCh, busRsp, tpNext, tpSent,
                   tpMidRequest, streamAdds, latest, pollLog, issuedAt, rspHist,
                   polled>>
    /\ UNCHANGED notPollVars

\* Run: now := time.Now(); SendAndWait registers its waiter and transmits the
\* request; the ECU answers with one of its frames, or not at all
RunSend ==
    /\ pollPc = "send"
    /\ Len(issuedAt[0]) + Len(issuedAt[1]) + Len(issuedAt[2]) < MaxPolls
    /\ pollNow' = clock
    /\ deadline' = clock + DefaultRespTimeout
    /\ waiterOn' = TRUE
    /\ waitCh' = <<>>
    /\ issuedAt' = [issuedAt EXCEPT ![readyIdx] = Append(@, clock)]
    /\ \/ UNCHANGED busRsp
       \/ \E f \in EcuAnswers(rdbiRequest(DIDsK701[readyIdx])) : busRsp' = Append(busRsp, f)
    /\ pollPc' = "wait"
    /\ UNCHANGED <<clock, ctxDone, startIdx, readyIdx, wakeAt, lastRead, lastChk, lastLen,
                   tpNext, tpSent, tpMidRequest, streamAdds, latest, pollLog, rspHist,
                   polled>>
    /\ UNCHANGED notPollVars

\* Run after SendAndWait returned rsp, err (lines 672-704): the per-DID state,
\* the streams and the log
runAfterRequest(err, rsp) ==
    LET did     == DIDsK701[readyIdx]
        ok      == /\ err = "nil"
                   /\ Len(rsp) >= 3
                   /\ rsp[1] = 98
                   /\ rsp[2] = Byte(did \div 256)
                   /\ rsp[3] = Byte(did)
        data    == Slice(rsp, 4, Len(rsp))
        chk     == xorChecksum(data)
        changed == responseChanged(chk, Len(data), lastChk[readyIdx], lastLen[readyIdx])
        added   == addDidData(ParseDIDBytes(did, data), readyIdx, pollNow, streamAdds, latest)
    IN  /\ lastRead' = [lastRead EXCEPT ![readyIdx] = pollNow]
        /\ rspHist' = IF ok THEN [rspHist EXCEPT ![readyIdx] = Append(@, data)] ELSE rspHist
        /\ IF ok /\ changed
           THEN /\ streamAdds' = added.adds
                /\ latest' = added.latest
                /\ pollLog' = Append(pollLog, [idx |-> readyIdx, ms |-> clock,
                                               did |-> did, data |-> data])
                /\ lastChk' = [lastChk EXCEPT ![readyIdx] = chk]
                /\ lastLen' = [lastLen EXCEPT ![readyIdx] = Byte(Len(data))]
           ELSE UNCHANGED <<streamAdds, latest, pollLog, lastChk, lastLen>>
        /\ startIdx' = nextStartIdx(readyIdx)

\* SendAndWait's select: a frame on the waiter channel, or ctx.Done() (timeout
\* or shutdown); then the deferred unregister and the rest of Run's iteration
RunAwait ==
    /\ pollPc = "wait"
    /\ \/ /\ waitCh # <<>>
          /\ LET u == unwrapSingleFrame(Head(waitCh))
             IN  runAfterRequest(u.err, u.out)
       \/ /\ (clock >= deadline \/ ctxDone)
          /\ runAfterRequest("context done", <<>>)
    /\ waiterOn' = FALSE
    /\ waitCh' = <<>>
    /\ pollPc' = "scan"
    /\ UNCHANGED <<clock, ctxDone, readyIdx, wakeAt, pollNow, deadline, busRsp, tpNext,
                   tpSent, tpMidRequest, issuedAt,
                   polled>>
    /\ UNCHANGED notPollVars

\* receiveLoop: read one frame from the bus and dispatch it to the waiters of
\* its CAN id; dropped when none is registered or the waiter's buffer is full
ReceiveLoop ==
    /\ ~ctxDone
    /\ busRsp # <<>>
    /\ busRsp' = Tail(busRsp)
    /\ waitCh' = IF waiterOn THEN chanOffer(waitCh, Head(busRsp), SubscriberBufferSize)
                 ELSE waitCh
    /\ UNCHANGED <<clock, ctxDone, pollPc, startIdx, readyIdx, wakeAt, pollNow, deadline,
                   lastRead, lastChk, lastLen, waiterOn, tpNext, tpSent, tpMidRequest,
                   streamAdds, latest, pollLog, issuedAt, rspHist,
                   polled>>
    /\ UNCHANGED notPollVars

\* testerPresentLoop: on a tick of its ticker, sendRaw(3E 80)
TesterPresent ==
    /\ ~ctxDone
    /\ clock >= tpNext
    /\ tpNext' = tpNext + TesterPresentPeriod
    /\ tpSent' = tpSent + 1
    /\ tpMidRequest' = IF pollPc = "wait" THEN tpMidRequest + 1 ELSE tpMidRequest
    /\ UNCHANGED <<clock, ctxDone, pollPc, startIdx, readyIdx, wakeAt, pollNow, deadline,
                   lastRead, lastChk, lastLen, waiterOn, waitCh, busRsp, streamAdds,
                   latest, pollLog, issuedAt, rspHist,
                   polled>>
    /\ UNCHANGED notPollVars

\* SocketCAN.Close: p.cancel()
SocketCANClose ==
    /\ ~ctxDone
    /\ ctxDone' = TRUE
    /\ UNCHANGED <<clock, pollPc, startIdx, readyIdx, wakeAt, pollNow, deadline,
                   lastRead, lastChk, lastLen, waiterOn, waitCh, busRsp, tpNext, tpSent,
                   tpMidRequest, streamAdds, latest, pollLog, issuedAt, rspHist,
                   polled>>
    /\ UNCHANGED notPollVars

PollNext ==
    \/ Tick
    \/ RunScan
    \/ RunWake
    \/ RunSend
    \/ RunAwait
    \/ ReceiveLoop
    \/ TesterPresent
    \/ SocketCANClose

----------------------------------------------------------------------------
(* Seed/key: ecus.GenerateK701Key *)

SecurityLevel1 == 1
SecurityLevel2 == 2
SecurityLevel3 == 3

\* mutant: the magic numbers of levels 2 and 3 are exchanged
magicNumber_exchanged(level) ==
    CASE level = SecurityLevel2 -> 28465
      [] level = SecurityLevel3 -> 19790
      [] OTHER -> 0

\* the switch on level: 0 stands for the two error returns
magicNumber(level) ==
    CASE level = SecurityLevel2 -> 19790      \* 0x4D4E
      [] level = SecurityLevel3 -> 28465      \* 0x6F31
      [] OTHER -> 0

\* mutant: the key is split little-endian
keyBytes_swapped(key) == << key % 256, (key \div 256) % 256 >>

\* keyHi = byte((key >> 8) & 0xFF), keyLo = byte(key & 0xFF)
keyBytes(key) == << (key \div 256) % 256, key % 256 >>

GenerateK701Key(level, seedHi, seedLo) ==
    IF level \notin {SecurityLevel2, SecurityLevel3}
    THEN [keyHi |-> 0, keyLo |-> 0,
          err |-> IF level = SecurityLevel1 THEN "missing magic number for Level 1"
                  ELSE "invalid level security level requested"]
    ELSE LET x   == (seedHi * 256) + seedLo                  \* uint16
             key == (magicNumber(level) * x) % 65536         \* uint16 product, & 0xFFFF
         IN  [keyHi |-> keyBytes(key)[1], keyLo |-> keyBytes(key)[2], err |-> "nil"]

\* keyOut before the call
NoKey == [keyHi |-> 0, keyLo |-> 0, err |-> "none"]

KeyInit ==
    /\ keyLevel \in {SecurityLevel1, SecurityLevel2, SecurityLevel3}
    /\ keySeedHi \in 0..255
    /\ keySeedLo \in 0..255
    /\ keyOut = NoKey

KeyIdle ==
    /\ keyLevel = SecurityLevel3
    /\ keySeedHi = 0
    /\ keySeedLo = 0
    /\ keyOut = NoKey

\* one call of GenerateK701Key
GenerateKey ==
    /\ keyOut = NoKey
    /\ keyOut' = GenerateK701Key(keyLevel, keySeedHi, keySeedLo)
    /\ UNCHANGED <<keyLevel, keySeedHi, keySeedLo>>
    /\ UNCHANGED notKeyVars

KeyNext == GenerateKey

----------------------------------------------------------------------------
(* Security handshake: SocketCAN.Init, DoSecurityHandshake, rawRequestSeed, rawSendKey *)

SidSecurityAccess == 39    \* 0x27
PosOffset == 64            \* 0x40
SaL2RequestSeed == 3
SaL2SendKey == 4
SaL3RequestSeed == 5
SaL3SendKey == 6
MaxKeyAttempts == 3        \* attempt < 3

\* the switch on level of DoSecurityHandshake: <<reqSub, keySub>>
handshakeSubs(level) ==
    IF level = 3 THEN <<SaL3RequestSeed, SaL3SendKey>> ELSE <<SaL2RequestSeed, SaL2SendKey>>

\* what SendAndWait may return to the handshake: a timeout or send error, or
\* the payload of whatever frame reaches the waiter (the expected response, a
\* negative response, a short or a stale one)
HsOutcomes ==
    { [err |-> "timeout", rsp |-> <<>>] } \cup
    { [err |-> "nil", rsp |-> r] :
        r \in { <<103, 5, 171, 205>>, <<103, 3, 18, 52>>, <<103, 5>>,
                <<103, 6>>, <<103, 4>>, <<127, 39, 53>> } }

\* rawRequestSeed's reading of SendAndWait's result: [err, seedHi, seedLo]
rawRequestSeed(reqSub, out) ==
    IF out.err # "nil" THEN [err |-> out.err, seedHi |-> 0, seedLo |-> 0]
    ELSE IF Len(out.rsp) >= 4 /\ out.rsp[1] = SidSecurityAccess + PosOffset /\ out.rsp[2] = reqSub
         THEN [err |-> "nil", seedHi |-> out.rsp[3], seedLo |-> out.rsp[4]]
    ELSE IF Len(out.rsp) >= 3 /\ out.rsp[1] = 127 /\ out.rsp[2] = SidSecurityAccess
         THEN [err |-> "UDS NRC", seedHi |-> 0, seedLo |-> 0]
    ELSE [err |-> "unexpected seed response", seedHi |-> 0, seedLo |-> 0]

\* mutant: any positive SecurityAccess response counts as the key's acceptance
rawSendKey_anySub(keySub, out) ==
    IF out.err # "nil" THEN [ok |-> FALSE, err |-> out.err]
    ELSE IF Len(out.rsp) >= 2 /\ out.rsp[1] = SidSecurityAccess + PosOffset
         THEN [ok |-> TRUE, err |-> "nil"]
    ELSE IF Len(out.rsp) >= 3 /\ out.rsp[1] = 127 /\ out.rsp[2] = SidSecurityAccess
         THEN [ok |-> FALSE, err |-> "UDS NRC"]
    ELSE [ok |-> FALSE, err |-> "unexpected key response"]

\* rawSendKey's reading of SendAndWait's result: [ok, err]
rawSendKey(keySub, out) ==
    IF out.err # "nil" THEN [ok |-> FALSE, err |-> out.err]
    ELSE IF Len(out.rsp) >= 2 /\ out.rsp[1] = SidSecurityAccess + PosOffset /\ out.rsp[2] = keySub
         THEN [ok |-> TRUE, err |-> "nil"]
    ELSE IF Len(out.rsp) >= 3 /\ out.rsp[1] = 127 /\ out.rsp[2] = SidSecurityAccess
         THEN [ok |-> FALSE, err |-> "UDS NRC"]
    ELSE [ok |-> FALSE, err |-> "unexpected key response"]

HsInit ==
    /\ hsLevel \in {SecurityLevel1, SecurityLevel2, SecurityLevel3}
    /\ hsPc = "start"
    /\ hsSeed = <<0, 0>>
    /\ hsKey = <<0, 0>>
    /\ hsAttempt = 0
    /\ hsResult = ""
    /\ initResult = ""
    /\ hsSent = <<>>
    /\ hsAnswers = <<>>

HsIdle ==
    /\ hsLevel = SecurityLevel3
    /\ hsPc = "start"
    /\ hsSeed = <<0, 0>>
    /\ hsKey = <<0, 0>>
    /\ hsAttempt = 0
    /\ hsResult = ""
    /\ initResult = ""
    /\ hsSent = <<>>
    /\ hsAnswers = <<>>

\* rawRequestSeed transmits 27 reqSub
HsRequestSeed ==
    /\ hsPc = "start"
    /\ hsSent' = Append(hsSent, <<SidSecurityAccess, handshakeSubs(hsLevel)[1]>>)
    /\ hsPc' = "seedWait"
    /\ UNCHANGED <<hsLevel, hsSeed, hsKey, hsAttempt, hsResult, initResult, hsAnswers>>
    /\ UNCHANGED notHsVars

\* rawRequestSeed returns; on success GenerateK701Key computes the key
HsSeedResult(out) ==
    /\ hsPc = "seedWait"
    /\ LET r == rawRequestSeed(handshakeSubs(hsLevel)[1], out)
           k == GenerateK701Key(hsLevel, r.seedHi, r.seedLo)
       IN  IF r.err # "nil"
           THEN /\ hsResult' = r.err
                /\ hsPc' = "done"
                /\ UNCHANGED <<hsSeed, hsKey>>
           ELSE /\ hsSeed' = <<r.seedHi, r.seedLo>>
                /\ IF k.err # "nil"
                   THEN hsResult' = k.err /\ hsPc' = "done" /\ UNCHANGED hsKey
                   ELSE hsKey' = <<k.keyHi, k.keyLo>> /\ hsPc' = "keySend" /\ UNCHANGED hsResult
    /\ UNCHANGED <<hsLevel, hsAttempt, initResult, hsSent, hsAnswers>>
    /\ UNCHANGED notHsVars

\* the loop of DoSecurityHandshake: rawSendKey transmits 27 keySub keyHi keyLo
HsSendKey ==
    /\ hsPc = "keySend"
    /\ hsSent' = Append(hsSent, <<SidSecurityAccess, handshakeSubs(hsLevel)[2],
                                  hsKey[1], hsKey[2]>>)
    /\ hsPc' = "keyWait"
    /\ UNCHANGED <<hsLevel, hsSeed, hsKey, hsAttempt, hsResult, initResult, hsAnswers>>
    /\ UNCHANGED notHsVars

\* rawSendKey returns: success ends the handshake, anything else sleeps 200 ms
HsKeyResult(out) ==
    /\ hsPc = "keyWait"
    /\ hsAnswers' = Append(hsAnswers, out)
    /\ LET r == rawSendKey(handshakeSubs(hsLevel)[2], out)
       IN  IF r.err = "nil" /\ r.ok
           THEN hsResult' = "nil" /\ hsPc' = "done"
           ELSE hsPc' = "sleep" /\ UNCHANGED hsResult
    /\ UNCHANGED <<hsLevel, hsSeed, hsKey, hsAttempt, initResult, hsSent>>
    /\ UNCHANGED notHsVars

\* the sleep ends: attempt++, and the loop condition attempt < 3
HsNextAttempt ==
    /\ hsPc = "sleep"
    /\ hsAttempt' = hsAttempt + 1
    /\ IF hsAttempt + 1 < MaxKeyAttempts
       THEN hsPc' = "keySend" /\ UNCHANGED hsResult
       ELSE hsPc' = "done" /\ hsResult' = "securityAccess: key rejected"
    /\ UNCHANGED <<hsLevel, hsSeed, hsKey, initResult, hsSent, hsAnswers>>
    /\ UNCHANGED notHsVars

\* Init returns nil, or the handshake's error wrapped
InitReturn ==
    /\ hsPc = "done"
    /\ initResult' = IF hsResult = "nil" THEN "nil" ELSE "security handshake failed"
    /\ hsPc' = "returned"
    /\ UNCHANGED <<hsLevel, hsSeed, hsKey, hsAttempt, hsResult, hsSent, hsAnswers>>
    /\ UNCHANGED notHsVars

HsNext ==
    \/ HsRequestSeed
    \/ \E out \in HsOutcomes : HsSeedResult(out)
    \/ HsSendKey
    \/ \E out \in HsOutcomes : HsKeyResult(out)
    \/ HsNextAttempt
    \/ InitReturn

----------------------------------------------------------------------------
(* Codec specification: a driver records frames, then the file is read back *)

MaxLogFrames == 2

\* a 64-byte payload (the largest the reader accepts)
Payload64 == [i \in 1..64 |-> ((i * 37) % 256)]

\* 0, 10000, 0x0001AA55, 0xFFFFFFFF
CodecTimestamps == {<<0, 10000>>, <<1, 43605>>, <<65535, 65535>>}
CodecDids == {256, 43605}                              \* 0x0100, 0xAA55
CodecPayloads == {<<>>, <<15, 160>>, <<170, 85, 0>>, Payload64}

CodecInit ==
    /\ logFile = <<>>
    /\ wrFrames = <<>>
    /\ rdPos = 1
    /\ rdOut = <<>>
    /\ codecPhase = "record"

\* SocketCAN.writeFrame appends one record to the log
WriteFrame(ms, did, data) ==
    /\ codecPhase = "record"
    /\ Len(wrFrames) < MaxLogFrames
    /\ logFile' = logFile \o writeFrame(ms, did, data)
    /\ wrFrames' = Append(wrFrames, [timestamp |-> ms, did |-> did, value |-> data])
    /\ UNCHANGED <<rdPos, rdOut, codecPhase>>
    /\ UNCHANGED notCodecVars

\* the log is closed and opened for reading (bufio.NewReader over the file)
OpenForRead ==
    /\ codecPhase = "record"
    /\ codecPhase' = "replay"
    /\ UNCHANGED <<logFile, wrFrames, rdPos, rdOut>>
    /\ UNCHANGED notCodecVars

\* one call of readBinaryFrame on the reader
ReadFrame ==
    /\ codecPhase = "replay"
    /\ IF rdOut = <<>> THEN TRUE ELSE rdOut[Len(rdOut)].err # "EOF"
    /\ LET r == readBinaryFrame(logFile, rdPos)
       IN  /\ rdOut' = Append(rdOut, [err |-> r.err, did |-> r.did, value |-> r.value,
                                       timestamp |-> r.timestamp])
           /\ rdPos' = r.pos
    /\ UNCHANGED <<logFile, wrFrames, codecPhase>>
    /\ UNCHANGED notCodecVars

CodecNext ==
    \/ \E ms \in CodecTimestamps, did \in CodecDids, data \in CodecPayloads :
          WriteFrame(ms, did, data)
    \/ OpenForRead
    \/ ReadFrame

----------------------------------------------------------------------------------
(* Decode table applied to one input: K701.ParseDIDBytes *)

MaxParseLen == 3

\* DIDs of the decode table that the model carries, and DIDs outside the table
ParseKnownDids == {RpmDidK701, ThrottleDidK701, SideStandDidK701, CoolantDidK701, GearDidK701}
ParseUnknownDids == {0, 257, 65535}

ParseBytes == {0, 15, 160, 255}
ParsePayloads == UNION { [1..n -> ParseBytes] : n \in 0..MaxParseLen }

ParseIdle ==
    /\ parseDid = 0
    /\ parseData = <<>>
    /\ parseOut = <<>>
    /\ parseDone = FALSE

ParseInit ==
    /\ parseDid \in ParseKnownDids \cup ParseUnknownDids
    /\ parseData \in ParsePayloads
    /\ parseOut = <<>>
    /\ parseDone = FALSE

\* one call of ParseDIDBytes
ParseCall ==
    /\ ~parseDone
    /\ parseOut' = ParseDIDBytes(parseDid, parseData)
    /\ parseDone' = TRUE
    /\ UNCHANGED <<parseDid, parseData>>
    /\ UNCHANGED notParseVars

ParseNext == ParseCall

----------------------------------------------------------------------------
(* Stream windowing: models.Stream with Add, OnTick and PostProcess *)

\* s.windowSize, in ms
windowSize == 2
\* timestamps and tick times range over 0..MaxStreamTime
MaxStreamTime == 5
\* the number of points added to one stream
MaxPoints == 3

\* s.min and s.max
streamMin == 0
streamMax == 10

StreamTimes == 0..MaxStreamTime
StreamValues == {2, 7}

DataPoint(t, v) == [timestamp |-> t, value |-> v]

SetMin(S) == CHOOSE x \in S : \A y \in S : x <= y

\* the first index whose timestamp is >= leftMs, one past the end if there is none
windowStart(pts, leftMs) ==
    LET hits == {i \in 1..Len(pts) : pts[i].timestamp >= leftMs}
    IN  IF hits = {} THEN Len(pts) + 1 ELSE SetMin(hits)

\* the 1-point margin to the left: start-- unless start is the first index
leftMargin_two(start) == IF start > 2 THEN start - 2 ELSE 1
leftMargin(start) == IF start > 1 THEN start - 1 ELSE start

\* the index before the first one from start on whose timestamp is > currentTimeMs,
\* the last index if there is none; never before start
windowEnd(pts, start, now) ==
    LET hits == {i \in start..Len(pts) : pts[i].timestamp > now}
        end == IF hits = {} THEN Len(pts) ELSE SetMin(hits) - 1
    IN  IF end < start THEN start ELSE end

\* the 1-point margin to the right, if there is a point after end
rightMargin(end, len) == IF end < len THEN end + 1 ELSE end

\* the value of s.window after PostProcess(currentTimeMs) on the points pts
PostProcess(pts, now) ==
    IF Len(pts) = 0 THEN <<>>
    ELSE
      LET leftMs == now - windowSize
          start == leftMargin(windowStart(pts, leftMs))
          end == rightMargin(windowEnd(pts, start, now), Len(pts))
          src == SubSeq(pts, start, IF end > Len(pts) THEN Len(pts) ELSE end)
          shifted == [i \in 1..Len(src) |->
                         DataPoint(src[i].timestamp + windowSize - now, src[i].value)]
          sentinel == DataPoint(windowSize, shifted[Len(shifted)].value)
          all == Append(shifted, sentinel)
      IN  IF Len(src) = 0 THEN <<>>
          ELSE [i \in 1..Len(all) |->
                   DataPoint(all[i].timestamp, streamMax + streamMin - all[i].value)]

StreamIdle ==
    /\ points = <<>>
    /\ window = <<>>
    /\ streamCall = "none"

StreamInit == StreamIdle

\* Stream.Add(timestamp, value); the driver stamps samples with a clock that does not go back
StreamAdd(ts, v) ==
    /\ Len(points) < MaxPoints
    /\ IF points = <<>> THEN TRUE ELSE points[Len(points)].timestamp <= ts
    /\ points' = Append(points, DataPoint(ts, v))
    /\ streamCall' = "Add"
    /\ UNCHANGED window
    /\ UNCHANGED notStreamVars

\* Stream.OnTick(currentTimeMs)
StreamOnTick(t) ==
    /\ window' = PostProcess(points, t)
    /\ streamCall' = "OnTick"
    /\ UNCHANGED points
    /\ UNCHANGED notStreamVars

StreamAddAny == \E ts \in StreamTimes, v \in StreamValues : StreamAdd(ts, v)

StreamOnTickAny == \E t \in StreamTimes : StreamOnTick(t)

StreamNext == StreamAddAny \/ StreamOnTickAny

----------------------------------------------------------------------------
(* Stream with a buffer of svg points: models.Stream with Add and OnTick *)

SvgPointZero == DataPoint(0, 0)

\* s.StartTimeMs(): the start time, set to the current tick time while it is 0
StartTimeMs(start, cur) == IF start = 0 THEN cur ELSE start

SvgIdle ==
    /\ svgPoints = <<>>
    /\ svgLatest = SvgPointZero
    /\ startTimeMs = 0
    /\ currentTimeMs = 0
    /\ svgCall = "none"

SvgInit == SvgIdle

\* Stream.Add(timestamp, value)
SvgAdd(ts, v) ==
    /\ Len(svgPoints) < MaxPoints
    /\ svgLatest' = DataPoint(ts, v)
    /\ startTimeMs' = StartTimeMs(startTimeMs, currentTimeMs)
    /\ svgPoints' = Append(svgPoints,
                           DataPoint(ts + windowSize - StartTimeMs(startTimeMs, currentTimeMs),
                                     streamMax + streamMin - v))
    /\ svgCall' = "Add"
    /\ UNCHANGED currentTimeMs
    /\ UNCHANGED notSvgVars

\* Stream.OnTick(currentTimeMs)
SvgOnTick(t) ==
    /\ currentTimeMs' = t
    /\ svgPoints' = <<>>
    /\ svgCall' = "OnTick"
    /\ UNCHANGED <<svgLatest, startTimeMs>>
    /\ UNCHANGED notSvgVars

\* the driver's samples and the ticks carry the wall clock, which starts after 0
SvgTimes == 1..MaxStreamTime

SvgAddAny ==
    \E ts \in SvgTimes, v \in StreamValues :
        /\ svgLatest.timestamp <= ts
        /\ currentTimeMs <= ts
        /\ SvgAdd(ts, v)

SvgOnTickAny ==
    \E t \in SvgTimes :
        /\ currentTimeMs <= t
        /\ svgLatest.timestamp <= t
        /\ SvgOnTick(t)

SvgNext == SvgAddAny \/ SvgOnTickAny

----------------------------------------------------------------------------
(* Replay of a recorded file: Replayer.Run and playOnce *)

\* frames in the replayed file
MaxReplayFrames == 3
\* playOnce calls followed when r.Loop is set
MaxPasses == 2
\* r.SkipFrames ranges over 0..MaxSkipFrames
MaxSkipFrames == 1

\* r.Speed
ReplaySpeeds == {0, 1, 2}

\* time.Millisecond, in ns
Millisecond == 1000000

\* time.Sleep was not called
NoSleep == -1

ReplayTimestamps == {<<0, 1000>>, <<0, 2000>>}

\* the recorded frames: RPM 1000 and gear 2
ReplayFrameChoices ==
    { [timestamp |-> ms, did |-> c[1], value |-> c[2]] :
        ms \in ReplayTimestamps, c \in {<<RpmDidK701, <<15, 160>>>>, <<GearDidK701, <<0, 2>>>>} }

\* bytes of one recorded frame: magic, 7 header bytes, 2 payload bytes, CRC
ReplayFrameLen == 12

\* the file the recorder wrote for the frames fs
recordedFile(fs) ==
    LET enc[k \in 0..Len(fs)] ==
            IF k = 0 THEN <<>>
            ELSE enc[k - 1] \o writeFrame(fs[k].timestamp, fs[k].did, fs[k].value)
    IN  enc[Len(fs)]

\* the number of bytes missing from the end of a file whose last frame was not written whole
ReplayCuts == {1, 3, 6, 10, 11}

\* what happened to the file: nothing, the last frame is partial, or frame n has a wrong
\* CRC byte or a length byte above 64
ReplayDamages(n) ==
    {<<"none", 0>>}
        \cup (IF n > 0 THEN {<<"cut", k>> : k \in ReplayCuts} ELSE {})
        \cup {<<"crc", j>> : j \in 1..n}
        \cup {<<"len", j>> : j \in 1..n}

damagedFile(buf, d) ==
    CASE d[1] = "none" -> buf
      [] d[1] = "cut" -> SubSeq(buf, 1, Len(buf) - d[2])
      [] d[1] = "crc" ->
            [buf EXCEPT ![ReplayFrameLen * d[2]] = Byte(buf[ReplayFrameLen * d[2]] + 1)]
      [] d[1] = "len" ->
            [buf EXCEPT ![ReplayFrameLen * (d[2] - 1) + 9] = 65]

\* int64(timestamp)
TsValue(ts) == ts[1] * 65536 + ts[2]

\* time.Duration(float64(delta) * float64(time.Millisecond) / r.Speed), in ns
sleepDuration_noSpeed(delta, speed) == delta * Millisecond
sleepDuration(delta, speed) == (delta * Millisecond) \div speed

ReplayIdle ==
    /\ rpFrames = <<>>
    /\ rpDamage = <<"none", 0>>
    /\ rpFile = <<>>
    /\ rpSpeed = 0
    /\ rpSkipFrames = 0
    /\ rpLoop = FALSE
    /\ rpPc = "returned"
    /\ rpPos = 1
    /\ rpFirst = TRUE
    /\ rpPrevMS = 0
    /\ rpFrameIndex = 0
    /\ rpResult = "nil"
    /\ rpPasses = 0
    /\ rpEmitted = <<>>
    /\ rpAdds = <<>>

\* NewReplayer for a file, a speed, a number of frames to skip and the loop flag
ReplayInit ==
    /\ rpFrames \in UNION { [1..n -> ReplayFrameChoices] : n \in 0..MaxReplayFrames }
    /\ rpDamage \in ReplayDamages(Len(rpFrames))
    /\ rpFile = damagedFile(recordedFile(rpFrames), rpDamage)
    /\ rpSpeed \in ReplaySpeeds
    /\ rpSkipFrames \in 0..MaxSkipFrames
    /\ rpLoop \in BOOLEAN
    /\ rpPc = "run"
    /\ rpPos = 1
    /\ rpFirst = TRUE
    /\ rpPrevMS = 0
    /\ rpFrameIndex = 0
    /\ rpResult = ""
    /\ rpPasses = 0
    /\ rpEmitted = <<>>
    /\ rpAdds = <<>>

\* Run calls playOnce, which opens the file and sets its locals
ReplayPlayOnce ==
    /\ rpPc = "run"
    /\ rpPasses < MaxPasses
    /\ rpPc' = "read"
    /\ rpPos' = 1
    /\ rpFirst' = TRUE
    /\ rpPrevMS' = 0
    /\ rpFrameIndex' = 0
    /\ rpPasses' = rpPasses + 1
    /\ rpEmitted' = Append(rpEmitted, <<>>)
    /\ UNCHANGED <<rpFrames, rpDamage, rpFile, rpSpeed, rpSkipFrames, rpLoop, rpResult, rpAdds>>
    /\ UNCHANGED notReplayVars

\* the stream.Add calls playOnce makes for one frame
replayAdds(did, value) ==
    LET samples == ParseDIDBytes(did, value)
    IN  IF samples = <<>> \/ samples[1].StreamKey \notin StreamKeys THEN <<>>
        ELSE IF Discrete(samples[1].StreamKey) THEN <<samples[1], samples[1]>>
        ELSE <<samples[1]>>

\* one iteration of playOnce's loop; when playOnce returns, Run returns or loops
ReplayFrame ==
    /\ rpPc = "read"
    /\ LET r == readBinaryFrame(rpFile, rpPos)
           ts == TsValue(r.timestamp)
           prev == IF rpFirst THEN ts ELSE rpPrevMS
           delta == ts - prev
           slept == IF rpSpeed > 0 /\ delta > 0 THEN sleepDuration(delta, rpSpeed)
                    ELSE NoSleep
       IN  IF r.err = "EOF"
           THEN /\ rpPc' = IF rpLoop THEN "run" ELSE "returned"
                /\ rpResult' = IF rpLoop THEN rpResult ELSE "nil"
                /\ UNCHANGED <<rpPos, rpFirst, rpPrevMS, rpFrameIndex, rpEmitted, rpAdds>>
           ELSE IF r.err # "nil"
           THEN /\ rpPc' = "returned"
                /\ rpResult' = r.err
                /\ UNCHANGED <<rpPos, rpFirst, rpPrevMS, rpFrameIndex, rpEmitted, rpAdds>>
           ELSE IF rpFrameIndex < rpSkipFrames
           THEN /\ rpPos' = r.pos
                /\ rpFrameIndex' = rpFrameIndex + 1
                /\ UNCHANGED <<rpPc, rpResult, rpFirst, rpPrevMS, rpEmitted, rpAdds>>
           ELSE /\ rpPos' = r.pos
                /\ rpFirst' = FALSE
                /\ rpPrevMS' = IF rpSpeed > 0 THEN ts ELSE prev
                /\ rpEmitted' =
                       [rpEmitted EXCEPT ![rpPasses] =
                           Append(@, [timestamp |-> r.timestamp, did |-> r.did,
                                      value |-> r.value, slept |-> slept])]
                /\ rpAdds' = rpAdds \o replayAdds(r.did, r.value)
                /\ rpFrameIndex' = rpFrameIndex + 1
                /\ UNCHANGED <<rpPc, rpResult>>
    /\ UNCHANGED <<rpFrames, rpDamage, rpFile, rpSpeed, rpSkipFrames, rpLoop, rpPasses>>
    /\ UNCHANGED notReplayVars

ReplayNext == ReplayPlayOnce \/ ReplayFrame

----------------------------------------------------------------------------
(* Shutdown: SocketCAN.Close against Run, testerPresentLoop and receiveLoop *)

NumConsecutiveErrorsTillTerminateRead == 100

\* mutant: the loop never looks at the context at its top
runTop_noCheck(done) == "scan"
\* Run's select at the top of the loop: return ctx.Err() when the context is done
runTop(done) == IF done THEN "returned" ELSE "scan"

SdIdle ==
    /\ sdCtxDone = FALSE
    /\ sdConnClosed = FALSE
    /\ sdRun = "returned"
    /\ sdTp = "returned"
    /\ sdRx = "returned"
    /\ sdErrCount = 0

\* Init has started receiveLoop and testerPresentLoop, and Run has been called
SdInit ==
    /\ sdCtxDone = FALSE
    /\ sdConnClosed = FALSE
    /\ sdRun = "top"
    /\ sdTp = "select"
    /\ sdRx = "select"
    /\ sdErrCount = 0

\* Close: p.cancel()
SdCancel ==
    /\ ~sdCtxDone
    /\ sdCtxDone' = TRUE
    /\ UNCHANGED <<sdConnClosed, sdRun, sdTp, sdRx, sdErrCount>>
    /\ UNCHANGED notSdVars

\* Close: the writer is flushed, the log file closed, then p.conn.Close()
SdCloseConn ==
    /\ sdCtxDone
    /\ ~sdConnClosed
    /\ sdConnClosed' = TRUE
    /\ UNCHANGED <<sdCtxDone, sdRun, sdTp, sdRx, sdErrCount>>
    /\ UNCHANGED notSdVars

\* Run: the context check that opens each iteration
SdRunTop ==
    /\ sdRun = "top"
    /\ sdRun' = runTop(sdCtxDone)
    /\ UNCHANGED <<sdCtxDone, sdConnClosed, sdTp, sdRx, sdErrCount>>
    /\ UNCHANGED notSdVars

\* Run: the scan finds a DID that is due (ready) or none (readyIdx == -1)
SdRunScan(ready) ==
    /\ sdRun = "scan"
    /\ sdRun' = IF ready THEN "request" ELSE "sleep"
    /\ UNCHANGED <<sdCtxDone, sdConnClosed, sdTp, sdRx, sdErrCount>>
    /\ UNCHANGED notSdVars

\* Run: select on p.ctx.Done() and the minWait timer
SdRunSleep(timerFired) ==
    /\ sdRun = "sleep"
    /\ timerFired \/ sdCtxDone
    /\ sdRun' = IF timerFired THEN "top" ELSE "returned"
    /\ UNCHANGED <<sdCtxDone, sdConnClosed, sdTp, sdRx, sdErrCount>>
    /\ UNCHANGED notSdVars

\* Run: SendAndWait returns (a response, the DefaultRespTimeout deadline or the
\* cancelled parent context), then the response is handled
SdRunRequest ==
    /\ sdRun = "request"
    /\ sdRun' = "flush"
    /\ UNCHANGED <<sdCtxDone, sdConnClosed, sdTp, sdRx, sdErrCount>>
    /\ UNCHANGED notSdVars

\* Run: startIdx is advanced and the non-blocking select on flushTicker.C is passed
SdRunFlush ==
    /\ sdRun = "flush"
    /\ sdRun' = "top"
    /\ UNCHANGED <<sdCtxDone, sdConnClosed, sdTp, sdRx, sdErrCount>>
    /\ UNCHANGED notSdVars

SdRunStep ==
    \/ SdRunTop
    \/ \E ready \in BOOLEAN : SdRunScan(ready)
    \/ \E timerFired \in BOOLEAN : SdRunSleep(timerFired)
    \/ SdRunRequest
    \/ SdRunFlush

\* testerPresentLoop: the select takes the ticker's case
SdTpTick ==
    /\ sdTp = "select"
    /\ sdTp' = "send"
    /\ UNCHANGED <<sdCtxDone, sdConnClosed, sdRun, sdRx, sdErrCount>>
    /\ UNCHANGED notSdVars

\* testerPresentLoop: sendRaw returns (its context has a 100 ms deadline)
SdTpSend ==
    /\ sdTp = "send"
    /\ sdTp' = "select"
    /\ UNCHANGED <<sdCtxDone, sdConnClosed, sdRun, sdRx, sdErrCount>>
    /\ UNCHANGED notSdVars

\* testerPresentLoop: the select takes case <-p.ctx.Done()
SdTpReturn ==
    /\ sdTp = "select"
    /\ sdCtxDone
    /\ sdTp' = "returned"
    /\ UNCHANGED <<sdCtxDone, sdConnClosed, sdRun, sdRx, sdErrCount>>
    /\ UNCHANGED notSdVars

\* receiveLoop: the context check that opens each iteration
SdRxTop ==
    /\ sdRx = "select"
    /\ sdRx' = IF sdCtxDone THEN "returned" ELSE "receive"
    /\ UNCHANGED <<sdCtxDone, sdConnClosed, sdRun, sdTp, sdErrCount>>
    /\ UNCHANGED notSdVars

\* receiveLoop: Receive returns true, errCount is reset and the frame dispatched
\* (dispatch never blocks)
SdRxFrame ==
    /\ sdRx = "receive"
    /\ ~sdConnClosed
    /\ sdErrCount' = 0
    /\ sdRx' = "select"
    /\ UNCHANGED <<sdCtxDone, sdConnClosed, sdRun, sdTp>>
    /\ UNCHANGED notSdVars

\* receiveLoop: Receive returns false (a bus error, or the connection is closed)
SdRxError ==
    /\ sdRx = "receive"
    /\ sdErrCount' = sdErrCount + 1
    /\ sdRx' = IF sdErrCount + 1 > NumConsecutiveErrorsTillTerminateRead
               THEN "returned" ELSE "backoff"
    /\ UNCHANGED <<sdCtxDone, sdConnClosed, sdRun, sdTp>>
    /\ UNCHANGED notSdVars

\* receiveLoop: time.Sleep(backoff) ends (backoff is at most one second)
SdRxBackoff ==
    /\ sdRx = "backoff"
    /\ sdRx' = "select"
    /\ UNCHANGED <<sdCtxDone, sdConnClosed, sdRun, sdTp, sdErrCount>>
    /\ UNCHANGED notSdVars

\* a Receive on the closed connection fails
SdRxClosed == sdConnClosed /\ SdRxError

SdNext ==
    \/ SdCancel
    \/ SdCloseConn
    \/ SdRunStep
    \/ SdTpTick
    \/ SdTpSend
    \/ SdTpReturn
    \/ SdRxTop
    \/ SdRxFrame
    \/ SdRxError
    \/ SdRxBackoff

----------------------------------------------------------------------------
(* Process entry point: cmd/dashboard main *)

\* config.DriverType values, and one value that is none of them
DriverTypes == {"arduino", "socket-can", "replay", "other"}

NoExit == -1

\* what Init of a driver without a handshake can do: Arduino.Init returns nil or
\* getArduinoPort ends the process with log.Fatalf; Replayer.Init returns nil
InitOutcomes(driver) ==
    IF driver = "arduino" THEN {"nil", "fatal"} ELSE {"nil"}

MainIdle ==
    /\ mainDriver = "other"
    /\ mainPc = "exited"
    /\ mainInitErr = ""
    /\ mainRun = "none"
    /\ exitCode = NoExit

MainInit ==
    /\ mainDriver \in DriverTypes
    /\ mainPc = "switch"
    /\ mainInitErr = ""
    /\ mainRun = "none"
    /\ exitCode = NoExit

\* the switch on flags.Driver: an unsupported type ends the process with log.Fatalf
MainSwitch ==
    /\ mainPc = "switch"
    /\ IF mainDriver = "other"
       THEN /\ mainPc' = "exited"
            /\ exitCode' = 1
       ELSE /\ mainPc' = "init"
            /\ UNCHANGED exitCode
    /\ UNCHANGED <<mainDriver, mainInitErr, mainRun>>
    /\ UNCHANGED notMainVars

\* driver.Init() of the SocketCAN driver is running
MainHandshake ==
    /\ mainPc = "init"
    /\ mainDriver = "socket-can"
    /\ HsNext

\* err := driver.Init(); if err != nil { log.Printf; return }; go driver.Run()
MainAfterInit(err) ==
    /\ mainInitErr' = err
    /\ IF err = "nil"
       THEN /\ mainPc' = "dashboard"
            /\ mainRun' = "running"
            /\ UNCHANGED exitCode
       ELSE /\ mainPc' = "exited"
            \* log.Fatalf ends the process with code 1; a returning main ends it with 0
            /\ exitCode' = IF err = "fatal" THEN 1 ELSE 0
            /\ UNCHANGED mainRun
    /\ UNCHANGED mainDriver
    /\ UNCHANGED notMainVars

\* SocketCAN.Init has returned
MainInitSocketCAN ==
    /\ mainPc = "init"
    /\ mainDriver = "socket-can"
    /\ hsPc = "returned"
    /\ MainAfterInit(initResult)

\* Arduino.Init or Replayer.Init has returned, or has ended the process
MainInitOther ==
    /\ mainPc = "init"
    /\ mainDriver # "socket-can"
    /\ \E err \in InitOutcomes(mainDriver) : MainAfterInit(err)

\* the goroutine: driver.Run returns, an error is logged
MainRunReturns(err) ==
    /\ mainRun = "running"
    /\ mainPc # "exited"
    /\ mainRun' = err
    /\ UNCHANGED <<mainDriver, mainPc, mainInitErr, exitCode>>
    /\ UNCHANGED notMainVars

\* web.NewDashboard(): an error ends the process with log.Fatalf
MainNewDashboard(ok) ==
    /\ mainPc = "dashboard"
    /\ IF ok
       THEN /\ mainPc' = "serve"
            /\ UNCHANGED exitCode
       ELSE /\ mainPc' = "exited"
            /\ exitCode' = 1
    /\ UNCHANGED <<mainDriver, mainInitErr, mainRun>>
    /\ UNCHANGED notMainVars

\* server.Start returns: an error ends the process with log.Fatalf, nil lets main return
MainServerStart(err) ==
    /\ mainPc = "serve"
    /\ mainPc' = "exited"
    /\ exitCode' = IF err = "nil" THEN 0 ELSE 1
    /\ UNCHANGED <<mainDriver, mainInitErr, mainRun>>
    /\ UNCHANGED notMainVars

MainNext ==
    \/ MainSwitch
    \/ MainHandshake
    \/ MainInitSocketCAN
    \/ MainInitOther
    \/ \E err \in {"nil", "err"} : MainRunReturns(err)
    \/ \E ok \in BOOLEAN : MainNewDashboard(ok)
    \/ \E err \in {"nil", "err"} : MainServerStart(err)

----------------------------------------------------------------------------
(* Arduino driver: Arduino.Run and processBinary (drivers/arduino.go, drivers/binary.go) *)

MaxSerialChunks == 2        \* frames the device sends in a run
WRITE_EVERY_N_FRAMES == 2   \* 100 in the source, scaled down

\* the frame a record of the log stands for
Frame(ms, did, data) == [timestamp |-> ms, did |-> did, value |-> data]

\* s with its last byte replaced by b
WithLast(s, b) == [i \in 1..Len(s) |-> IF i = Len(s) THEN b ELSE s[i]]

\* a frame with two payload bytes whose CRC byte is c
FrameWithCrc(c) ==
    LET b == CHOOSE x \in 0..255 :
                 LET f == writeFrame(<<0, 10000>>, RpmDidK701, <<15, x>>)
                 IN  f[Len(f)] = c
    IN  writeFrame(<<0, 10000>>, RpmDidK701, <<15, b>>)

\* the frame's length byte with bit 6 inverted: 2 becomes 66
LenFlipped(f) == [f EXCEPT ![9] = Xor8(f[9], 64)]

\* what the device's frames can arrive as: two valid frames, a frame whose CRC byte
\* is wrong, and frames whose length byte is out of range
SerialChunks ==
    LET g1 == writeFrame(<<0, 10000>>, RpmDidK701, <<15, 160>>)
        g2 == writeFrame(<<0, 10010>>, GearDidK701, <<0, 2>>)
    IN  { [kind |-> "good", bytes |-> g1, frame |-> Frame(<<0, 10000>>, RpmDidK701, <<15, 160>>)],
          [kind |-> "good", bytes |-> g2, frame |-> Frame(<<0, 10010>>, GearDidK701, <<0, 2>>)],
          [kind |-> "badCrc", bytes |-> WithLast(g1, Xor8(g1[Len(g1)], 1)),
           frame |-> Frame(<<0, 10000>>, RpmDidK701, <<15, 160>>)],
          [kind |-> "badLen", bytes |-> LenFlipped(FrameWithCrc(0)),
           frame |-> Frame(<<0, 10000>>, RpmDidK701, <<>>)],
          [kind |-> "badLen", bytes |-> LenFlipped(FrameWithCrc(170)),
           frame |-> Frame(<<0, 10000>>, RpmDidK701, <<>>)] }

RECURSIVE Concat(_)
Concat(chunks) ==
    IF chunks = <<>> THEN <<>> ELSE Head(chunks).bytes \o Concat(Tail(chunks))

ArIdle ==
    /\ arChunks = <<>>
    /\ arIn = <<>>
    /\ arPos = 1
    /\ arRun = "returned"
    /\ arReader = "returned"
    /\ arFrames = 0
    /\ arBuf = <<>>
    /\ arErr = FALSE
    /\ arFile = <<>>
    /\ arFileClosed = FALSE
    /\ arWritten = <<>>
    /\ arBroadcast = <<>>
    /\ arRejected = <<>>

\* Init has opened the port; the device will send arChunks and then the port ends
ArInit ==
    /\ arChunks \in UNION { [1..n -> SerialChunks] : n \in 0..MaxSerialChunks }
    /\ arIn = Concat(arChunks)
    /\ arPos = 1
    /\ arRun = "start"
    /\ arReader = "none"
    /\ arFrames = 0
    /\ arBuf = <<>>
    /\ arErr = FALSE
    /\ arFile = <<>>
    /\ arFileClosed = FALSE
    /\ arWritten = <<>>
    /\ arBroadcast = <<>>
    /\ arRejected = <<>>

\* bufio.Writer.Flush on the writer w = [buf, err, file] over a file that is closed or not
writerFlush(w, closed) ==
    IF w.err \/ w.buf = <<>> THEN w
    ELSE IF closed THEN [w EXCEPT !.err = TRUE]
    ELSE [buf |-> <<>>, err |-> FALSE, file |-> w.file \o w.buf]

\* Run: the log file is opened, logWriter made, and go processBinary(...) started
ArRunStart ==
    /\ arRun = "start"
    /\ arRun' = "started"
    /\ arReader' = "reading"
    /\ UNCHANGED <<arChunks, arIn, arPos, arFrames, arBuf, arErr, arFile, arFileClosed,
                   arWritten, arBroadcast, arRejected>>
    /\ UNCHANGED notArVars

\* Run: return nil runs the deferred logWriter.Flush()
ArRunFlush ==
    /\ arRun = "started"
    /\ LET w == writerFlush([buf |-> arBuf, err |-> arErr, file |-> arFile], arFileClosed)
       IN  /\ arBuf' = w.buf
           /\ arErr' = w.err
           /\ arFile' = w.file
    /\ arRun' = "flushed"
    /\ UNCHANGED <<arChunks, arIn, arPos, arReader, arFrames, arFileClosed, arWritten,
                   arBroadcast, arRejected>>
    /\ UNCHANGED notArVars

\* Run: then the deferred file.Close(), and Run has returned
ArRunClose ==
    /\ arRun = "flushed"
    /\ arFileClosed' = TRUE
    /\ arRun' = "returned"
    /\ UNCHANGED <<arChunks, arIn, arPos, arReader, arFrames, arBuf, arErr, arFile,
                   arWritten, arBroadcast, arRejected>>
    /\ UNCHANGED notArVars

\* processBinary: one iteration of its loop
ArRead ==
    /\ arReader = "reading"
    /\ LET r == readBinaryFrame(arIn, arPos)
           f == Frame(r.timestamp, r.did, r.value)
       IN  /\ arPos' = r.pos
           /\ IF r.err = "EOF"
              THEN /\ arReader' = "returned"
                   /\ UNCHANGED <<arFrames, arBuf, arErr, arFile, arWritten, arBroadcast,
                                  arRejected>>
              ELSE IF r.err # "nil"
              THEN /\ arRejected' = Append(arRejected, r.err)
                   /\ UNCHANGED <<arReader, arFrames, arBuf, arErr, arFile, arWritten,
                                  arBroadcast>>
              ELSE /\ arWritten' = Append(arWritten, f)
                   /\ IF arErr
                      THEN UNCHANGED <<arFrames, arBuf, arErr, arFile>>
                      ELSE LET w0 == [buf |-> Append(arBuf, f), err |-> FALSE, file |-> arFile]
                               w  == IF (arFrames + 1) % WRITE_EVERY_N_FRAMES = 0
                                     THEN writerFlush(w0, arFileClosed) ELSE w0
                           IN  /\ arFrames' = arFrames + 1
                               /\ arBuf' = w.buf
                               /\ arErr' = w.err
                               /\ arFile' = w.file
                   /\ arBroadcast' = Append(arBroadcast, f)
                   /\ UNCHANGED <<arReader, arRejected>>
    /\ UNCHANGED <<arChunks, arIn, arRun, arFileClosed>>
    /\ UNCHANGED notArVars

ArNext ==
    \/ ArRunStart
    \/ ArRunFlush
    \/ ArRunClose
    \/ ArRead

----------------------------------------------------------------------------
(* ISO-TP receive: SocketCAN.isotpRecv and recvRawFiltered *)

MaxIsoLen == 120     \* longest payload the ECU transmits: 6 bytes + 17 consecutive frames
MaxOddFrames == 2    \* frames in a run that are not the ECU's next frame

CanIdReq == 2016     \* 0x7E0
CanIdRsp == 2024     \* 0x7E8
CanIdOther == 1911   \* 0x777, some other node of the bus

IsoLens == {0, 3, 7, 8, 20, MaxIsoLen}
IsoMaxLens == {16, 64, 4095}

\* the payload of n bytes the ECU transmits
IsoPayload(n) == [i \in 1..n |-> (i * 37) % 256]

\* a CAN frame: f.ID and f.Data[:f.Length]
CanFrame(id, data) == [ID |-> id, data |-> data]

\* f.Length
FrameLength(f) == Len(f.data)

\* f.Data[i] of the 8-byte array, zero beyond f.Length
FrameData(f, i) == IF i + 1 <= Len(f.data) THEN f.data[i + 1] ELSE 0

\* x & 0xF0 and x & 0x0F
HighNibble(x) == (x \div 16) * 16
LowNibble(x) == x % 16

\* data padded to 8 bytes with 0xAA when the ECU pads
Pad(data, padded) ==
    IF padded THEN [i \in 1..8 |-> IF i <= Len(data) THEN data[i] ELSE 170] ELSE data

\* the number of consecutive frames that carry the bytes after the first 6
NumCF(n) == IF n <= 6 THEN 0 ELSE (n - 6 + 6) \div 7

\* the frames of the ECU's transmission of payload: a Single Frame up to 7 bytes,
\* else a First Frame and Consecutive Frames numbered 1..15, 0, 1, ...
EcuFrames(payload, padded) ==
    LET n == Len(payload)
    IN  IF n <= 7
        THEN << CanFrame(CanIdRsp, Pad(<<n>> \o payload, padded)) >>
        ELSE [k \in 1..(1 + NumCF(n)) |->
                 IF k = 1
                 THEN CanFrame(CanIdRsp, <<16 + (n \div 256), n % 256>> \o Slice(payload, 1, 6))
                 ELSE LET from == 7 + (k - 2) * 7
                          to   == IF from + 6 <= n THEN from + 6 ELSE n
                      IN  CanFrame(CanIdRsp,
                                   Pad(<<32 + ((k - 1) % 16)>> \o Slice(payload, from, to), padded))]

\* frames that are not part of the transmission: frames of another node, a First
\* Frame of one byte, a Single Frame that announces more than it carries, a frame
\* with an unknown PCI, and a Flow Control frame
OddFrames ==
    { CanFrame(CanIdOther, <<3, 1, 2, 3>>),
      CanFrame(CanIdOther, <<33, 9, 9, 9, 9, 9, 9, 9>>),
      CanFrame(CanIdRsp, <<16>>),
      CanFrame(CanIdRsp, <<5, 1, 2>>),
      CanFrame(CanIdRsp, <<48, 0, 0>>),
      CanFrame(CanIdRsp, <<>>) }

minInt(a, b) == IF a < b THEN a ELSE b

\* waitMatch's filter: a Single Frame or First Frame from expectID
startMatch(f, expectID) ==
    /\ f.ID = expectID
    /\ FrameLength(f) # 0
    /\ HighNibble(FrameData(f, 0)) \in {0, 16}

\* the filter of the consecutive-frame loop
cfMatch(f, expectID) ==
    /\ f.ID = expectID
    /\ FrameLength(f) > 0
    /\ HighNibble(FrameData(f, 0)) = 32

\* expectSN = (expectSN + 1) & 0x0F
nextSN(sn) == (sn + 1) % 16

IsoIdle ==
    /\ isoPayload = <<>>
    /\ isoPadded = FALSE
    /\ isoMaxLen = 0
    /\ isoSentIdx = 1
    /\ isoOdd = 0
    /\ isoPc = "returned"
    /\ isoTotal = 0
    /\ isoBuf = <<>>
    /\ isoExpectSN = 0
    /\ isoErr = ""
    /\ isoOut = <<>>
    /\ isoTrace = <<>>

IsoInit ==
    /\ isoPayload \in {IsoPayload(n) : n \in IsoLens}
    /\ isoPadded \in BOOLEAN
    /\ isoMaxLen \in IsoMaxLens
    /\ isoSentIdx = 1
    /\ isoOdd = 0
    /\ isoPc = "waitStart"
    /\ isoTotal = 0
    /\ isoBuf = <<>>
    /\ isoExpectSN = 0
    /\ isoErr = ""
    /\ isoOut = <<>>
    /\ isoTrace = <<>>

\* isotpRecv returns
IsoReturn(err, out) ==
    /\ isoPc' = "returned"
    /\ isoErr' = err
    /\ isoOut' = out

\* waitMatch returned the frame f: the switch on its PCI
IsoStart(f) ==
    IF HighNibble(FrameData(f, 0)) = 0
    THEN LET L == LowNibble(FrameData(f, 0))
         IN  /\ IF L > 7 \/ L > FrameLength(f) - 1 \/ L > isoMaxLen
                THEN IsoReturn("SF length invalid", <<>>)
                ELSE IsoReturn("nil", [i \in 1..L |-> FrameData(f, i)])
             /\ isoTrace' = Append(isoTrace, "SF")
             /\ UNCHANGED <<isoTotal, isoBuf, isoExpectSN>>
    ELSE LET total  == FrameData(f, 1) + LowNibble(FrameData(f, 0)) * 256
             copied == minInt(FrameLength(f) - 2, total)
         IN  IF total > isoMaxLen
             THEN /\ IsoReturn("FF too big", <<>>)
                  /\ isoTrace' = Append(isoTrace, "FF")
                  /\ UNCHANGED <<isoTotal, isoBuf, isoExpectSN>>
             ELSE IF copied < 0
             THEN \* buf[:copied] with a negative bound
                  /\ IsoReturn("panic", <<>>)
                  /\ isoTrace' = Append(isoTrace, "FF")
                  /\ UNCHANGED <<isoTotal, isoBuf, isoExpectSN>>
             ELSE /\ isoTotal' = total
                  /\ isoBuf' = [i \in 1..copied |-> FrameData(f, 1 + i)]
                  /\ isoExpectSN' = 1
                  /\ isoTrace' = Append(Append(isoTrace, "FF"), "FC")
                  /\ IF copied < total
                     THEN /\ isoPc' = "waitCF"
                          /\ UNCHANGED <<isoErr, isoOut>>
                     ELSE IsoReturn("nil", [i \in 1..copied |-> FrameData(f, 1 + i)])

\* the loop received the consecutive frame cf
IsoConsecutive(cf) ==
    IF LowNibble(FrameData(cf, 0)) # isoExpectSN
    THEN /\ IsoReturn("SN mismatch", <<>>)
         /\ isoTrace' = Append(isoTrace, "CF")
         /\ UNCHANGED <<isoTotal, isoBuf, isoExpectSN>>
    ELSE LET pos   == Len(isoBuf)
             chunk == minInt(FrameLength(cf) - 1, isoTotal - pos)
             buf   == isoBuf \o [i \in 1..chunk |-> FrameData(cf, i)]
         IN  /\ isoBuf' = buf
             /\ isoExpectSN' = nextSN(isoExpectSN)
             /\ isoTrace' = Append(isoTrace, "CF")
             /\ IF Len(buf) = isoTotal
                THEN IsoReturn("nil", buf)
                ELSE UNCHANGED <<isoPc, isoErr, isoOut>>
             /\ UNCHANGED isoTotal

\* Receive delivers the frame f to the recvRawFiltered call that is waiting
IsoReceive(f) ==
    IF isoPc = "waitStart"
    THEN IF startMatch(f, CanIdRsp) THEN IsoStart(f)
         ELSE UNCHANGED <<isoPc, isoTotal, isoBuf, isoExpectSN, isoErr, isoOut, isoTrace>>
    ELSE IF cfMatch(f, CanIdRsp) THEN IsoConsecutive(f)
         ELSE UNCHANGED <<isoPc, isoTotal, isoBuf, isoExpectSN, isoErr, isoOut, isoTrace>>

\* the ECU's next frame arrives
IsoEcuFrame ==
    /\ isoPc # "returned"
    /\ isoSentIdx <= Len(EcuFrames(isoPayload, isoPadded))
    /\ IsoReceive(EcuFrames(isoPayload, isoPadded)[isoSentIdx])
    /\ isoSentIdx' = isoSentIdx + 1
    /\ UNCHANGED <<isoPayload, isoPadded, isoMaxLen, isoOdd>>
    /\ UNCHANGED notIsoVars

\* one frame of the ECU's transmission is lost on the way
IsoLostFrame ==
    /\ isoPc # "returned"
    /\ isoOdd < MaxOddFrames
    /\ isoSentIdx <= Len(EcuFrames(isoPayload, isoPadded))
    /\ isoSentIdx' = isoSentIdx + 1
    /\ isoOdd' = isoOdd + 1
    /\ UNCHANGED <<isoPayload, isoPadded, isoMaxLen, isoPc, isoTotal, isoBuf, isoExpectSN,
                   isoErr, isoOut, isoTrace>>
    /\ UNCHANGED notIsoVars

\* a frame that is not part of the transmission arrives
IsoOddFrame(f) ==
    /\ isoPc # "returned"
    /\ isoOdd < MaxOddFrames
    /\ IsoReceive(f)
    /\ isoOdd' = isoOdd + 1
    /\ UNCHANGED <<isoPayload, isoPadded, isoMaxLen, isoSentIdx>>
    /\ UNCHANGED notIsoVars

\* the deadline passes: recvRawFiltered returns an error, or the loop ends
IsoDeadline(err) ==
    /\ isoPc # "returned"
    /\ err \in (IF isoPc = "waitStart"
                THEN {"timeout waiting for matching frame", "receive closed"}
                ELSE {"CF timeout", "incomplete ISO-TP transfer"})
    /\ IsoReturn(err, <<>>)
    /\ UNCHANGED <<isoPayload, isoPadded, isoMaxLen, isoSentIdx, isoOdd, isoTotal, isoBuf,
                   isoExpectSN, isoTrace>>
    /\ UNCHANGED notIsoVars

IsoErrors == {"timeout waiting for matching frame", "receive closed", "CF timeout",
              "incomplete ISO-TP transfer"}

IsoNext ==
    \/ IsoEcuFrame
    \/ IsoLostFrame
    \/ \E f \in OddFrames : IsoOddFrame(f)
    \/ \E err \in IsoErrors : IsoDeadline(err)

----------------------------------------------------------------------------
(* Poll scheduler: the iterations of SocketCAN.Run over a long window *)

SchedHorizon == 3000    \* ms of Run that are explored
SchedWindow == 2000     \* shortest window the poll counts are compared over, 2 * max interval

\* the time a request takes: an immediate answer, a quick one, no answer at all
SchedRespTimes == {0, 1, DefaultRespTimeout}

SchIdle ==
    /\ schResp = 0
    /\ schClock = SchedHorizon
    /\ schLastRead = [i \in 0..(NumDids - 1) |-> NoTime]
    /\ schStartIdx = 0
    /\ schPolls = [i \in 0..(NumDids - 1) |-> 0]

SchInit ==
    /\ schResp \in SchedRespTimes
    /\ schClock = 0
    /\ schLastRead = [i \in 0..(NumDids - 1) |-> NoTime]
    /\ schStartIdx = 0
    /\ schPolls = [i \in 0..(NumDids - 1) |-> 0]

\* an iteration that finds a DID due: now is taken, the request is issued and
\* answered (or times out), lastRead[readyIdx] = now, startIdx moves on
SchPoll ==
    /\ schClock < SchedHorizon
    /\ LET r == scanDids(0, schStartIdx, schLastRead, schClock, MaxDuration)
       IN  /\ r.readyIdx # -1
           /\ schLastRead' = [schLastRead EXCEPT ![r.readyIdx] = schClock]
           /\ schPolls' = [schPolls EXCEPT ![r.readyIdx] = @ + 1]
           /\ schStartIdx' = nextStartIdx(r.readyIdx)
           /\ schClock' = schClock + schResp
    /\ UNCHANGED schResp
    /\ UNCHANGED notSchVars

\* an iteration that finds no DID due: the timer of minWait fires, continue
SchSleep ==
    /\ schClock < SchedHorizon
    /\ LET r == scanDids(0, schStartIdx, schLastRead, schClock, MaxDuration)
       IN  /\ r.readyIdx = -1
           /\ schClock' = schClock + r.minWait
    /\ UNCHANGED <<schResp, schLastRead, schStartIdx, schPolls>>
    /\ UNCHANGED notSchVars

SchNext ==
    \/ SchPoll
    \/ SchSleep

----------------------------------------------------------------------------
(* Receive back-off: the delay computed by SocketCAN.receiveLoop *)

\* An int64 is kept as four 16-bit limbs <<l3, l2, l1, l0>>, most significant
\* first, in two's complement, because the model's integers are 32-bit signed.
Int64Zero == <<0, 0, 0, 0>>

\* time.Millisecond = 1000000 ns = 0x000F4240
Int64Millisecond == <<0, 0, 15, 16960>>

\* time.Second = 1000000000 ns = 0x3B9ACA00
Int64Second == <<0, 0, 15258, 51712>>

\* bit j (0 = least significant) of the int64 x
Int64Bit(x, j) == (x[4 - (j \div 16)] \div (2 ^ (j % 16))) % 2

\* limb k (0 = least significant) of x << n: bit j of the result is bit j - n of
\* x, and the bits shifted beyond bit 63 are lost
ShlLimb(x, n, k) ==
    LET sum[b \in 0..16] ==
            IF b = 16 THEN 0
            ELSE (IF 16 * k + b < n THEN 0 ELSE Int64Bit(x, 16 * k + b - n)) + 2 * sum[b + 1]
    IN  sum[0]

\* x << n for a shift count n >= 0 (a count of 64 or more gives 0)
Shl(x, n) == << ShlLimb(x, n, 3), ShlLimb(x, n, 2), ShlLimb(x, n, 1), ShlLimb(x, n, 0) >>

\* x < 0
Int64Negative(x) == x[1] >= 32768

\* x < y for non-negative x and y
LimbsLess(x, y) ==
    \/ x[1] < y[1]
    \/ x[1] = y[1] /\ x[2] < y[2]
    \/ x[1] = y[1] /\ x[2] = y[2] /\ x[3] < y[3]
    \/ x[1] = y[1] /\ x[2] = y[2] /\ x[3] = y[3] /\ x[4] < y[4]

\* x > y as signed int64, for a non-negative y
Int64Greater(x, y) == ~Int64Negative(x) /\ LimbsLess(y, x)

\* backoff := time.Millisecond << uint(errCount); if backoff > time.Second { backoff = time.Second }
backoff(errCount) ==
    LET b == Shl(Int64Millisecond, errCount)
    IN  IF Int64Greater(b, Int64Second) THEN Int64Second ELSE b

BoIdle ==
    /\ boErrCount = 0
    /\ boPc = "returned"
    /\ boDelay = Int64Zero
    /\ boPrevDelay = Int64Zero
    /\ boSlept = FALSE

BoInit ==
    /\ boErrCount = 0
    /\ boPc = "receive"
    /\ boDelay = Int64Zero
    /\ boPrevDelay = Int64Zero
    /\ boSlept = FALSE

\* Receive returns false: errCount++, the loop gives up or sleeps backoff
BoFail ==
    /\ boPc = "receive"
    /\ boErrCount' = boErrCount + 1
    /\ IF boErrCount + 1 > NumConsecutiveErrorsTillTerminateRead
       THEN /\ boPc' = "returned"
            /\ UNCHANGED <<boDelay, boPrevDelay, boSlept>>
       ELSE /\ boDelay' = backoff(boErrCount + 1)
            /\ boPrevDelay' = boDelay
            /\ boSlept' = TRUE
            /\ UNCHANGED boPc
    /\ UNCHANGED notBoVars

\* Receive returns true: errCount = 0 and the frame is dispatched
BoFrame ==
    /\ boPc = "receive"
    /\ boErrCount' = 0
    /\ boDelay' = Int64Zero
    /\ boPrevDelay' = Int64Zero
    /\ boSlept' = FALSE
    /\ UNCHANGED boPc
    /\ UNCHANGED notBoVars

BoNext ==
    \/ BoFail
    \/ BoFrame

----------------------------------------------------------------------------
(* ISO-TP transmission: SocketCAN.isotpSend                               *)
(* src/drivers/socket_can.go:248-257 with sendRaw of the same file        *)
(* version, lines 213-221                                                 *)

\* Longest payload handed to isotpSend
MaxSendLen == 8

\* Byte values of the payloads
SendBytes == {34, 241}

SendPayloads == UNION { [1..n -> SendBytes] : n \in 0..MaxSendLen }

\* Largest payload of a Single Frame: if len(payload) <= 7
SingleFrameMax == 7

\* f := make([]byte, 1+len(payload)); f[0] = byte(len(payload)); copy(f[1:], payload)
singleFrame(payload) == <<Len(payload) % 256>> \o payload

\* isotpSend: the frames it hands to sendRaw for a payload
isotpSendFrames(payload) ==
    IF Len(payload) <= SingleFrameMax THEN <<singleFrame(payload)>> ELSE <<>>

TxIdle ==
    /\ txPayload = <<>>
    /\ txPc = "idle"
    /\ txFrames = <<>>
    /\ txErr = "none"

TxInit ==
    /\ txPayload \in SendPayloads
    /\ txPc = "call"
    /\ txFrames = <<>>
    /\ txErr = "none"

\* len(payload) <= 7: one frame through sendRaw, whose TransmitFrame succeeds
TxSingleSent ==
    /\ txPc = "call"
    /\ Len(txPayload) <= SingleFrameMax
    /\ txFrames' = txFrames \o isotpSendFrames(txPayload)
    /\ txErr' = "nil"
    /\ txPc' = "returned"
    /\ UNCHANGED txPayload
    /\ UNCHANGED notTxVars

\* len(payload) <= 7 and TransmitFrame fails: the error is returned
TxSingleFailed ==
    /\ txPc = "call"
    /\ Len(txPayload) <= SingleFrameMax
    /\ txErr' = "err"
    /\ txPc' = "returned"
    /\ UNCHANGED <<txPayload, txFrames>>
    /\ UNCHANGED notTxVars

\* len(payload) > 7: return nil
TxLong ==
    /\ txPc = "call"
    /\ Len(txPayload) > SingleFrameMax
    /\ txFrames' = txFrames \o isotpSendFrames(txPayload)
    /\ txErr' = "nil"
    /\ txPc' = "returned"
    /\ UNCHANGED txPayload
    /\ UNCHANGED notTxVars

TxNext ==
    \/ TxSingleSent
    \/ TxSingleFailed
    \/ TxLong

----------------------------------------------------------------------------
(* One UDS request and the responses to it: udsRequest                    *)
(* (src/drivers/socket_can.go:333-357) and the RDBI of the polling loop,  *)
(* Run with SendAndWait (src/drivers/socket_can.go:669-702, 865-896)      *)

\* Last tick of the clock
MaxUdsClock == 5

\* Response timeout (50 ms, DefaultRespTimeout) in ticks
UdsTimeoutTicks == 2

\* Most responsePending answers the ECU sends before the final one
MaxPending == 2

NegativeResponse == 127    \* 0x7F
ResponsePending == 120     \* 0x78
nrcRequestOutOfRange == 49    \* 0x31

\* DID of the request, high and low byte
UdsDid == <<0, 9>>

UdsPendingRsp == <<NegativeResponse, SidReadDataByIdentifier, ResponsePending>>
UdsNegativeRsp == <<NegativeResponse, SidReadDataByIdentifier, nrcRequestOutOfRange>>
UdsPositiveRsp == <<SidReadDataByIdentifier + PosOffset, UdsDid[1], UdsDid[2], 77>>

UdsFinals == {<<>>, <<UdsNegativeRsp>>, <<UdsPositiveRsp>>}

\* What the ECU answers: some responsePending, then a final response or nothing
UdsScripts ==
    { [i \in 1..n |-> UdsPendingRsp] \o f : n \in 0..MaxPending, f \in UdsFinals }

\* len(rsp) >= 3 && rsp[0] == 0x7F && rsp[2] == 0x78
isPending(rsp) == Len(rsp) >= 3 /\ rsp[1] = NegativeResponse /\ rsp[3] = ResponsePending

\* len(rsp) >= 3 && rsp[0] == 0x7F
isNegative(rsp) == Len(rsp) >= 3 /\ rsp[1] = NegativeResponse

UdsIdle ==
    /\ udsMode = "none"
    /\ udsPc = "idle"
    /\ udsClock = 0
    /\ udsDeadline = 0
    /\ udsScript = <<>>
    /\ udsRsp = <<>>
    /\ udsErr = "none"
    /\ udsDropped = 0

UdsInit ==
    /\ udsMode \in {"udsRequest", "poll"}
    /\ udsPc = "send"
    /\ udsClock = 0
    /\ udsDeadline = 0
    /\ udsScript \in UdsScripts
    /\ udsRsp = <<>>
    /\ udsErr = "none"
    /\ udsDropped = 0

\* The request is transmitted and the deadline set
UdsSend ==
    /\ udsPc = "send"
    /\ udsPc' = "wait"
    /\ udsDeadline' = udsClock + UdsTimeoutTicks
    /\ UNCHANGED <<udsMode, udsClock, udsScript, udsRsp, udsErr, udsDropped>>
    /\ UNCHANGED notUdsVars

\* Transmission fails: the error is returned
UdsSendFailed ==
    /\ udsPc = "send"
    /\ udsPc' = "returned"
    /\ udsErr' = "send"
    /\ UNCHANGED <<udsMode, udsClock, udsDeadline, udsScript, udsRsp, udsDropped>>
    /\ UNCHANGED notUdsVars

UdsTick ==
    /\ udsClock < MaxUdsClock
    /\ udsPc \in {"send", "wait"}
    /\ udsPc = "wait" => udsClock < udsDeadline
    /\ udsClock' = udsClock + 1
    /\ UNCHANGED <<udsMode, udsPc, udsDeadline, udsScript, udsRsp, udsErr, udsDropped>>
    /\ UNCHANGED notUdsVars

\* udsRequest receives a response before the deadline
UdsRequestReceives ==
    /\ udsMode = "udsRequest"
    /\ udsPc = "wait"
    /\ udsClock < udsDeadline
    /\ udsScript # <<>>
    /\ LET rsp == Head(udsScript)
       IN  /\ udsScript' = Tail(udsScript)
           /\ IF isPending(rsp)
              THEN /\ udsDeadline' = udsClock + UdsTimeoutTicks
                   /\ UNCHANGED <<udsPc, udsRsp, udsErr>>
              ELSE IF isNegative(rsp)
              THEN /\ udsPc' = "returned"
                   /\ udsErr' = "nrc"
                   /\ udsRsp' = rsp
                   /\ UNCHANGED udsDeadline
              ELSE /\ udsPc' = "returned"
                   /\ udsErr' = "nil"
                   /\ udsRsp' = rsp
                   /\ UNCHANGED udsDeadline
    /\ UNCHANGED <<udsMode, udsClock, udsDropped>>
    /\ UNCHANGED notUdsVars

\* SendAndWait returns the first frame that arrives on the response id
UdsPollReceives ==
    /\ udsMode = "poll"
    /\ udsPc = "wait"
    /\ udsClock < udsDeadline
    /\ udsScript # <<>>
    /\ udsScript' = Tail(udsScript)
    /\ udsPc' = "returned"
    /\ udsErr' = "nil"
    /\ udsRsp' = Head(udsScript)
    /\ UNCHANGED <<udsMode, udsClock, udsDeadline, udsDropped>>
    /\ UNCHANGED notUdsVars

\* The deadline passes without a response
UdsTimeout ==
    /\ udsPc = "wait"
    /\ udsClock >= udsDeadline
    /\ udsPc' = "returned"
    /\ udsErr' = "timeout"
    /\ UNCHANGED <<udsMode, udsClock, udsDeadline, udsScript, udsRsp, udsDropped>>
    /\ UNCHANGED notUdsVars

\* A frame of the ECU arrives when the request has returned: no waiter
UdsLateFrame ==
    /\ udsPc = "returned"
    /\ udsScript # <<>>
    /\ udsScript' = Tail(udsScript)
    /\ udsDropped' = udsDropped + 1
    /\ UNCHANGED <<udsMode, udsPc, udsClock, udsDeadline, udsRsp, udsErr>>
    /\ UNCHANGED notUdsVars

UdsNext ==
    \/ UdsSend
    \/ UdsSendFailed
    \/ UdsTick
    \/ UdsRequestReceives
    \/ UdsPollReceives
    \/ UdsTimeout
    \/ UdsLateFrame

----------------------------------------------------------------------------
(* One DID of the poll catalogue, from the RDBI request to the replay of  *)
(* its logged frame: DIDsToPollIntervalK701 (src/unnamed/part_017:34-87), *)
(* Run (src/drivers/socket_can.go:664-702), writeFrame (917-923) and the  *)
(* replay's readBinaryFrame with ParseDIDBytes (src/drivers/replay.go)    *)

O2Cyl1ExtendedK701 == 937986   \* 0xE5002

\* Keys of DIDsToPollIntervalK701, in the order of the source
PollCatalogueK701 ==
    { RpmDidK701, ThrottleDidK701, 112, 118, CoolantDidK701, GearDidK701, 272, 48, 18,
      258, 2, O2Cyl1ExtendedK701, 4105, 3, 288, 264, 304, 306, 100, SideStandDidK701,
      7, 4, 5 }

\* DIDs that have a case in the switch of K701.ParseDIDBytes: the same 23
ParseCasesK701 == PollCatalogueK701

\* The case of the switch that did selects: {did}, or {} for the default
parseCase(did) == {did} \cap ParseCasesK701

\* The DID a request or a response carries in its bytes 2 and 3
carriedDid(msg) == msg[2] * 256 + msg[3]

CatDatas == {<<0, 0>>, <<1, 244>>, <<255, 255>>}
CatTimes == {<<0, 0>>, <<1, 1000>>}

CatIdle ==
    /\ catDid = 0
    /\ catData = <<>>
    /\ catMs = <<0, 0>>
    /\ catPc = "idle"
    /\ catReq = <<>>
    /\ catLive = {}
    /\ catLog = <<>>
    /\ catReplay = {}

CatInit ==
    /\ catDid \in PollCatalogueK701
    /\ catData \in CatDatas
    /\ catMs \in CatTimes
    /\ catPc = "poll"
    /\ catReq = <<>>
    /\ catLive = {}
    /\ catLog = <<>>
    /\ catReplay = {}

\* Run builds the request for the DID that is due
CatRequest ==
    /\ catPc = "poll"
    /\ catReq' = rdbiRequest(catDid)
    /\ catPc' = "sent"
    /\ UNCHANGED <<catDid, catData, catMs, catLive, catLog, catReplay>>
    /\ UNCHANGED notCatVars

\* The positive response arrives: Run decodes the data with the catalogue
\* DID and writes the frame
CatRecord ==
    /\ catPc = "sent"
    /\ catLive' = parseCase(catDid)
    /\ catLog' = writeFrame(catMs, catDid, catData)
    /\ catPc' = "logged"
    /\ UNCHANGED <<catDid, catData, catMs, catReq, catReplay>>
    /\ UNCHANGED notCatVars

\* The replay reads the frame and decodes it with the DID of the frame
CatReplay ==
    /\ catPc = "logged"
    /\ LET r == readBinaryFrame(catLog, 1)
       IN  catReplay' = IF r.err = "nil" THEN parseCase(r.did) ELSE {}
    /\ catPc' = "replayed"
    /\ UNCHANGED <<catDid, catData, catMs, catReq, catLive, catLog>>
    /\ UNCHANGED notCatVars

CatNext ==
    \/ CatRequest
    \/ CatRecord
    \/ CatReplay

----------------------------------------------------------------------------
(* ROM dumper: the read loop of main, src/cmd/dumper/dumper.go:86-180,    *)
(* against an ECU that answers requestOutOfRange exactly when a read ends *)
(* beyond its ROM                                                         *)

\* Largest ROM size
MaxRomSize == 40

maxChunkInitial == 32      \* 0x20
minChunk == 1

\* shrinkChunk: halve from 0x20 up, else one less
shrinkChunk(current) == IF current >= 32 THEN current \div 2 ELSE current - 1

\* The ECU: a read of size bytes at address is out of range when it ends beyond the ROM
outOfRange(address, size) == address + size > dmRom

\* requestUploadChunk on success: the bytes at address .. address + size - 1,
\* each byte written as its address
uploadChunk(address, size) == [i \in 1..size |-> address + i - 1]

DumpIdle ==
    /\ dmRom = 0
    /\ dmPc = "idle"
    /\ dmAddress = 0
    /\ dmChunk = 0
    /\ dmShrunk = FALSE
    /\ dmLastGood = 0
    /\ dmWritten = <<>>
    /\ dmReported = 0

DumpInit ==
    /\ dmRom \in 0..MaxRomSize
    /\ dmPc = "loop"
    /\ dmAddress = 0
    /\ dmChunk = maxChunkInitial
    /\ dmShrunk = FALSE
    /\ dmLastGood = 0
    /\ dmWritten = <<>>
    /\ dmReported = 0

\* case nrcRequestOutOfRange: shrink the chunk; at minChunk report the size and return
DumpOutOfRange ==
    /\ dmPc = "loop"
    /\ outOfRange(dmAddress, dmChunk)
    /\ LET shrunk == shrinkChunk(dmChunk)
           chunk  == IF shrunk < minChunk THEN minChunk ELSE shrunk
       IN  /\ dmChunk' = chunk
           /\ IF chunk = minChunk
              THEN /\ dmReported' = dmLastGood
                   /\ dmPc' = "returned"
                   /\ UNCHANGED dmShrunk
              ELSE /\ dmShrunk' = TRUE
                   /\ UNCHANGED <<dmReported, dmPc>>
    /\ UNCHANGED <<dmRom, dmAddress, dmLastGood, dmWritten>>
    /\ UNCHANGED notDmVars

\* The chunk is read and written; after a shrink, a probe of minChunk bytes
\* at the new address decides whether the end is reached
DumpData ==
    /\ dmPc = "loop"
    /\ ~outOfRange(dmAddress, dmChunk)
    /\ dmWritten' = dmWritten \o uploadChunk(dmAddress, dmChunk)
    /\ dmLastGood' = dmAddress + dmChunk
    /\ dmAddress' = dmAddress + dmChunk
    /\ IF dmShrunk /\ outOfRange(dmAddress + dmChunk, minChunk)
       THEN /\ dmReported' = dmAddress + dmChunk
            /\ dmPc' = "returned"
       ELSE UNCHANGED <<dmReported, dmPc>>
    /\ UNCHANGED <<dmRom, dmChunk, dmShrunk>>
    /\ UNCHANGED notDmVars

DumpNext ==
    \/ DumpOutOfRange
    \/ DumpData

----------------------------------------------------------------------------
(* SendAndWait, its waiter and dispatch:                                  *)
(* src/drivers/socket_can.go:821-896                                      *)

\* SendAndWait calls made
MaxRequests == 2

\* Frames the ECU sends on the response id
MaxEcuFrames == 5

\* The index of ch in list, 0 if it is not there
waiterIndex(list, ch) ==
    LET hits == {i \in 1..Len(list) : list[i] = ch}
    IN  IF hits = {} THEN 0 ELSE SetMin(hits)

\* mutant: the unregister function leaves the list as it is
unregister_keep(list, ch) == list

\* The function registerWaiter returns: the first occurrence of ch is
\* overwritten with the last element and the list is cut by one
unregister(list, ch) ==
    LET i == waiterIndex(list, ch)
    IN  IF i = 0 THEN list
        ELSE SubSeq([list EXCEPT ![i] = list[Len(list)]], 1, Len(list) - 1)

\* dispatch: a non-blocking send of f to every channel of the list
dispatch(list, bufs, f) ==
    [c \in DOMAIN bufs |->
        IF waiterIndex(list, c) # 0 THEN chanOffer(bufs[c], f, SubscriberBufferSize)
        ELSE bufs[c]]

SwIdle ==
    /\ swCall = 0
    /\ swPc = "off"
    /\ swWaiters = <<>>
    /\ swBuf = <<>>
    /\ swBus = <<>>
    /\ swEcu = 0
    /\ swResult = "none"
    /\ swOut = 0

SwInit ==
    /\ swCall = 0
    /\ swPc = "idle"
    /\ swWaiters = <<>>
    /\ swBuf = <<>>
    /\ swBus = <<>>
    /\ swEcu = 0
    /\ swResult = "none"
    /\ swOut = 0

\* SendAndWait: make the channel and register it, before the request is sent
SwRegister ==
    /\ swPc = "idle"
    /\ swCall < MaxRequests
    /\ swCall' = swCall + 1
    /\ swBuf' = Append(swBuf, <<>>)
    /\ swWaiters' = Append(swWaiters, swCall + 1)
    /\ swPc' = "registered"
    /\ UNCHANGED <<swBus, swEcu, swResult, swOut>>
    /\ UNCHANGED notSwVars

\* sendRaw succeeds: the deferred unregister is set up and the select is reached
SwSent ==
    /\ swPc = "registered"
    /\ swPc' = "waiting"
    /\ UNCHANGED <<swCall, swWaiters, swBuf, swBus, swEcu, swResult, swOut>>
    /\ UNCHANGED notSwVars

\* sendRaw fails: unregister() and return the error
SwSendError ==
    /\ swPc = "registered"
    /\ swWaiters' = unregister(swWaiters, swCall)
    /\ swResult' = "sendErr"
    /\ swOut' = 0
    /\ swPc' = "idle"
    /\ UNCHANGED <<swCall, swBuf, swBus, swEcu>>
    /\ UNCHANGED notSwVars

\* case f := <-ch: the first buffered frame is returned, the waiter removed
SwReturnFrame ==
    /\ swPc = "waiting"
    /\ swBuf[swCall] # <<>>
    /\ swOut' = chanRecv(swBuf[swCall])
    /\ swResult' = "frame"
    /\ swWaiters' = unregister(swWaiters, swCall)
    /\ swPc' = "idle"
    /\ UNCHANGED <<swCall, swBuf, swBus, swEcu>>
    /\ UNCHANGED notSwVars

\* case <-ctx.Done(): the timeout or the shutdown; the waiter is removed
SwReturnCtx ==
    /\ swPc = "waiting"
    /\ swOut' = 0
    /\ swResult' = "ctxErr"
    /\ swWaiters' = unregister(swWaiters, swCall)
    /\ swPc' = "idle"
    /\ UNCHANGED <<swCall, swBuf, swBus, swEcu>>
    /\ UNCHANGED notSwVars

\* The ECU sends a frame on the response id, at any time after the first
\* transmission or the first failed call
SwEcuFrame ==
    /\ swEcu < MaxEcuFrames
    /\ swCall > 0
    /\ swPc # "registered" \/ swCall > 1
    /\ swEcu' = swEcu + 1
    /\ swBus' = Append(swBus, swEcu + 1)
    /\ UNCHANGED <<swCall, swPc, swWaiters, swBuf, swResult, swOut>>
    /\ UNCHANGED notSwVars

\* receiveLoop reads a frame and dispatches it
SwDispatch ==
    /\ swBus # <<>>
    /\ swBus' = Tail(swBus)
    /\ swBuf' = dispatch(swWaiters, swBuf, Head(swBus))
    /\ UNCHANGED <<swCall, swPc, swWaiters, swEcu, swResult, swOut>>
    /\ UNCHANGED notSwVars

SwNext ==
    \/ SwRegister
    \/ SwSent
    \/ SwSendError
    \/ SwReturnFrame
    \/ SwReturnCtx
    \/ SwEcuFrame
    \/ SwDispatch

----------------------------------------------------------------------------
(* The server's tick loop and the driver's Stream.Add on one stream:      *)
(* src/web/handlers/server.go:84-106, src/models/stream.go:105-117,       *)
(* 148-152. The two run in different goroutines and the stream has no     *)
(* lock; each call is taken as one step.                                  *)

\* Points the driver adds
MaxAdds == 3

\* Ticks of the loop
MaxTicks == 2

\* The points of a buffer
pointsOf(buf) == {buf[i] : i \in 1..Len(buf)}

TkIdle ==
    /\ tkPc = "off"
    /\ tkPoints = <<>>
    /\ tkAdded = 0
    /\ tkTicks = 0
    /\ tkRendered = <<>>

TkInit ==
    /\ tkPc = "ontick"
    /\ tkPoints = <<>>
    /\ tkAdded = 0
    /\ tkTicks = 0
    /\ tkRendered = <<>>

\* The driver: Stream.Add appends the svg point
TkAdd ==
    /\ tkPc # "off"
    /\ tkAdded < MaxAdds
    /\ tkAdded' = tkAdded + 1
    /\ tkPoints' = Append(tkPoints, tkAdded + 1)
    /\ tkRendered' = Append(tkRendered, 0)
    /\ UNCHANGED <<tkPc, tkTicks>>
    /\ UNCHANGED notTkVars

\* tickLoop: stream.OnTick(currentMs), which empties s.svgPoints
TkOnTick ==
    /\ tkPc = "ontick"
    /\ tkTicks < MaxTicks
    /\ tkPoints' = <<>>
    /\ tkPc' = "render"
    /\ UNCHANGED <<tkAdded, tkTicks, tkRendered>>
    /\ UNCHANGED notTkVars

\* tickLoop: the renderer reads stream.SvgPoints() for the clients
TkRender ==
    /\ tkPc = "render"
    /\ tkRendered' = [p \in DOMAIN tkRendered |->
                         IF p \in pointsOf(tkPoints) THEN tkRendered[p] + 1
                         ELSE tkRendered[p]]
    /\ tkPc' = "clear"
    /\ UNCHANGED <<tkPoints, tkAdded, tkTicks>>
    /\ UNCHANGED notTkVars

\* tickLoop: stream.ClearStream(), which empties the buffer that was sent
TkClear ==
    /\ tkPc = "clear"
    /\ tkPoints' = <<>>
    /\ tkTicks' = tkTicks + 1
    /\ tkPc' = "ontick"
    /\ UNCHANGED <<tkAdded, tkRendered>>
    /\ UNCHANGED notTkVars

TkNext ==
    \/ TkAdd
    \/ TkOnTick
    \/ TkRender
    \/ TkClear

----------------------------------------------------------------------------
(* Damaged input: the reader is given recorded bytes that were altered *)

\* the input is as the writer produced it
DamageIdle ==
    /\ flipAt = <<0, 0>>
    /\ junk = <<>>

\* the byte x with bit b inverted
flipBitOfByte(x, b) == IF Bit(x, b) = 1 THEN x - (2 ^ b) ELSE x + (2 ^ b)

\* buf with bit b of its byte i inverted
flipBit(buf, i, b) == [buf EXCEPT ![i] = flipBitOfByte(@, b)]

\* with timestamp 10000 and DID 0x0100, the payload 5C is the CRC of the same
\* header with length 0
FlipPayloads == {<<>>, <<15, 160>>, <<92>>, Payload64}

\* what follows the frame in the input: nothing, or another frame
FlipFollow == {<<>>, writeFrame(<<0, 10000>>, 256, <<15, 160>>)}

\* one recorded frame with one bit of its header or payload inverted
InitFlip ==
    /\ \E ms \in CodecTimestamps, did \in CodecDids, data \in FlipPayloads,
          follow \in FlipFollow :
          \E i \in 1..(7 + Len(data)), b \in 0..7 :
              /\ wrFrames = <<[timestamp |-> ms, did |-> did, value |-> data]>>
              /\ flipAt = <<i, b>>
              /\ logFile = flipBit(writeFrame(ms, did, data), 2 + i, b) \o follow
    /\ junk = <<>>
    /\ rdPos = 1
    /\ rdOut = <<>>
    /\ codecPhase = "replay"
    /\ HubInit /\ PollIdle /\ HsIdle /\ KeyIdle /\ ParseIdle
    /\ StreamIdle /\ SvgIdle /\ ReplayIdle /\ SdIdle /\ MainIdle /\ ArIdle /\ IsoIdle
    /\ SchIdle /\ BoIdle /\ TxIdle /\ UdsIdle /\ CatIdle /\ DumpIdle /\ SwIdle /\ TkIdle

FlipNext == ReadFrame

ResyncAlphabet == {0, 85, 170}
MaxJunk == 3

\* P contains the two-byte sequence AA 55
ContainsMagic(P) ==
    \E k \in 1..(Len(P) - 1) : P[k] = magicBytes[1] /\ P[k + 1] = magicBytes[2]

\* the byte strings of length 0..MaxJunk over ResyncAlphabet without AA 55
ResyncPrefixes ==
    { P \in UNION { [1..n -> ResyncAlphabet] : n \in 0..MaxJunk } : ~ContainsMagic(P) }

\* one recorded frame preceded by junk
InitResync ==
    /\ \E ms \in CodecTimestamps, did \in CodecDids, data \in CodecPayloads :
          /\ wrFrames = <<[timestamp |-> ms, did |-> did, value |-> data]>>
          /\ junk \in ResyncPrefixes
          /\ logFile = junk \o writeFrame(ms, did, data)
    /\ flipAt = <<0, 0>>
    /\ rdPos = 1
    /\ rdOut = <<>>
    /\ codecPhase = "replay"
    /\ HubInit /\ PollIdle /\ HsIdle /\ KeyIdle /\ ParseIdle
    /\ StreamIdle /\ SvgIdle /\ ReplayIdle /\ SdIdle /\ MainIdle /\ ArIdle /\ IsoIdle
    /\ SchIdle /\ BoIdle /\ TxIdle /\ UdsIdle /\ CatIdle /\ DumpIdle /\ SwIdle /\ TkIdle

ResyncNext == ReadFrame

----------------------------------------------------------------------------
(* A recorded frame given as bytes: readBinaryFrame, then ParseDIDBytes *)

\* AA 55 10 27 00 00 00 01 00 02 0F A0, to be followed by a CRC byte
ExampleStated == <<170, 85, 16, 39, 0, 0, 0, 1, 0, 2, 15, 160>>

\* AA 55 10 27 00 00 01 00 02 0F A0: timestamp 10000, DID 01 00, length 02
ExampleFramed == <<170, 85, 16, 39, 0, 0, 1, 0, 2, 15, 160>>

\* the input is one of the two byte strings, closed by any byte
InitExample ==
    /\ \E crc \in 0..255 :
          logFile \in {Append(ExampleStated, crc), Append(ExampleFramed, crc)}
    /\ wrFrames = <<>>
    /\ rdPos = 1
    /\ rdOut = <<>>
    /\ codecPhase = "replay"
    /\ HubInit /\ PollIdle /\ HsIdle /\ KeyIdle /\ DamageIdle /\ ParseIdle
    /\ StreamIdle /\ SvgIdle /\ ReplayIdle /\ SdIdle /\ MainIdle /\ ArIdle /\ IsoIdle
    /\ SchIdle /\ BoIdle /\ TxIdle /\ UdsIdle /\ CatIdle /\ DumpIdle /\ SwIdle /\ TkIdle

\* one frame is read from the input and, if the read succeeds, decoded
DecodeOne ==
    /\ codecPhase = "replay"
    /\ rdOut = <<>>
    /\ LET r == readBinaryFrame(logFile, rdPos)
       IN  /\ rdOut' = <<[err |-> r.err, did |-> r.did, value |-> r.value,
                          timestamp |-> r.timestamp]>>
           /\ rdPos' = r.pos
           /\ IF r.err = "nil"
              THEN /\ parseDid' = r.did
                   /\ parseData' = r.value
                   /\ parseOut' = ParseDIDBytes(r.did, r.value)
                   /\ parseDone' = TRUE
              ELSE UNCHANGED parseVars
    /\ UNCHANGED <<logFile, wrFrames, codecPhase>>
    /\ UNCHANGED <<hubVars, pollVars, hsVars, keyVars, damageVars, streamVars, svgVars,
                   replayVars, sdVars, mainVars, arVars, isoVars, schVars, boVars, txVars, udsVars, catVars, dmVars, swVars, tkVars>>

ExampleNext == DecodeOne

----------------------------------------------------------------------
(* Specifications: one per component, the other components stay idle *)

InitCodec == CodecInit /\ HubInit /\ PollIdle /\ HsIdle /\ KeyIdle /\ DamageIdle /\ ParseIdle
    /\ StreamIdle /\ SvgIdle /\ ReplayIdle /\ SdIdle /\ MainIdle /\ ArIdle /\ IsoIdle
    /\ SchIdle /\ BoIdle /\ TxIdle /\ UdsIdle /\ CatIdle /\ DumpIdle /\ SwIdle /\ TkIdle

SpecCodec == InitCodec /\ [][CodecNext]_vars

InitHub == HubInit /\ CodecInit /\ PollIdle /\ HsIdle /\ KeyIdle /\ DamageIdle /\ ParseIdle
    /\ StreamIdle /\ SvgIdle /\ ReplayIdle /\ SdIdle /\ MainIdle /\ ArIdle /\ IsoIdle
    /\ SchIdle /\ BoIdle /\ TxIdle /\ UdsIdle /\ CatIdle /\ DumpIdle /\ SwIdle /\ TkIdle

SpecHub == InitHub /\ [][HubNext]_vars

InitPoll == PollInit /\ CodecInit /\ HubInit /\ HsIdle /\ KeyIdle /\ DamageIdle /\ ParseIdle
    /\ StreamIdle /\ SvgIdle /\ ReplayIdle /\ SdIdle /\ MainIdle /\ ArIdle /\ IsoIdle
    /\ SchIdle /\ BoIdle /\ TxIdle /\ UdsIdle /\ CatIdle /\ DumpIdle /\ SwIdle /\ TkIdle

SpecPoll == InitPoll /\ [][PollNext]_vars

InitHandshake == HsInit /\ CodecInit /\ HubInit /\ PollIdle /\ KeyIdle /\ DamageIdle /\ ParseIdle
    /\ StreamIdle /\ SvgIdle /\ ReplayIdle /\ SdIdle /\ MainIdle /\ ArIdle /\ IsoIdle
    /\ SchIdle /\ BoIdle /\ TxIdle /\ UdsIdle /\ CatIdle /\ DumpIdle /\ SwIdle /\ TkIdle

SpecHandshake == InitHandshake /\ [][HsNext]_vars

InitKey == KeyInit /\ CodecInit /\ HubInit /\ PollIdle /\ HsIdle /\ DamageIdle /\ ParseIdle
    /\ StreamIdle /\ SvgIdle /\ ReplayIdle /\ SdIdle /\ MainIdle /\ ArIdle /\ IsoIdle
    /\ SchIdle /\ BoIdle /\ TxIdle /\ UdsIdle /\ CatIdle /\ DumpIdle /\ SwIdle /\ TkIdle

SpecKey == InitKey /\ [][KeyNext]_vars

\* the Go scheduler runs the hub worker goroutine whenever it can take a step
SpecFlip == InitFlip /\ [][FlipNext]_vars

SpecResync == InitResync /\ [][ResyncNext]_vars

InitParse == ParseInit /\ CodecInit /\ HubInit /\ PollIdle /\ HsIdle /\ KeyIdle /\ DamageIdle
    /\ StreamIdle /\ SvgIdle /\ ReplayIdle /\ SdIdle /\ MainIdle /\ ArIdle /\ IsoIdle
    /\ SchIdle /\ BoIdle /\ TxIdle /\ UdsIdle /\ CatIdle /\ DumpIdle /\ SwIdle /\ TkIdle

SpecParse == InitParse /\ [][ParseNext]_vars

SpecExample == InitExample /\ [][ExampleNext]_vars

FairSpecHub == SpecHub /\ WF_vars(RunStep)

InitStream == StreamInit /\ CodecInit /\ HubInit /\ PollIdle /\ HsIdle /\ KeyIdle /\ DamageIdle
    /\ ParseIdle /\ SvgIdle /\ ReplayIdle /\ SdIdle /\ MainIdle /\ ArIdle /\ IsoIdle
    /\ SchIdle /\ BoIdle /\ TxIdle /\ UdsIdle /\ CatIdle /\ DumpIdle /\ SwIdle /\ TkIdle

SpecStream == InitStream /\ [][StreamNext]_vars

InitSvg == SvgInit /\ CodecInit /\ HubInit /\ PollIdle /\ HsIdle /\ KeyIdle /\ DamageIdle
    /\ ParseIdle /\ StreamIdle /\ ReplayIdle /\ SdIdle /\ MainIdle /\ ArIdle
    /\ IsoIdle /\ SchIdle /\ BoIdle /\ TxIdle /\ UdsIdle /\ CatIdle /\ DumpIdle /\ SwIdle /\ TkIdle

SpecSvg == InitSvg /\ [][SvgNext]_vars

InitReplay == ReplayInit /\ CodecInit /\ HubInit /\ PollIdle /\ HsIdle /\ KeyIdle /\ DamageIdle
    /\ ParseIdle /\ StreamIdle /\ SvgIdle /\ SdIdle /\ MainIdle /\ ArIdle /\ IsoIdle
    /\ SchIdle /\ BoIdle /\ TxIdle /\ UdsIdle /\ CatIdle /\ DumpIdle /\ SwIdle /\ TkIdle

SpecReplay == InitReplay /\ [][ReplayNext]_vars

InitShutdown == SdInit /\ CodecInit /\ HubInit /\ PollIdle /\ HsIdle /\ KeyIdle /\ DamageIdle
    /\ ParseIdle /\ StreamIdle /\ SvgIdle /\ ReplayIdle /\ MainIdle /\ ArIdle
    /\ IsoIdle /\ SchIdle /\ BoIdle /\ TxIdle /\ UdsIdle /\ CatIdle /\ DumpIdle /\ SwIdle /\ TkIdle

SpecShutdown == InitShutdown /\ [][SdNext]_vars

\* Scheduling: every goroutine that can take a step takes one; Close runs to its
\* end; a select whose ctx.Done case stays ready takes it eventually (the runtime
\* picks among ready cases at random); a blocked Receive is released only by
\* traffic, which is not assumed, or by the closed connection.
FairSpecShutdown ==
    /\ SpecShutdown
    /\ WF_vars(SdCloseConn)
    /\ WF_vars(SdRunStep)
    /\ WF_vars(SdTpSend)
    /\ SF_vars(SdTpReturn)
    /\ WF_vars(SdRxTop)
    /\ WF_vars(SdRxBackoff)
    /\ WF_vars(SdRxClosed)

\* Init of the SocketCAN driver calls DoSecurityHandshake(3)
InitMain == MainInit /\ HsInit /\ hsLevel = SecurityLevel3 /\ CodecInit /\ HubInit /\ PollIdle
    /\ KeyIdle /\ DamageIdle /\ ParseIdle /\ StreamIdle /\ SvgIdle /\ ReplayIdle
    /\ SdIdle /\ ArIdle /\ IsoIdle /\ SchIdle /\ BoIdle /\ TxIdle /\ UdsIdle
    /\ CatIdle /\ DumpIdle /\ SwIdle /\ TkIdle

SpecMain == InitMain /\ [][MainNext]_vars

InitArduino == ArInit /\ CodecInit /\ HubInit /\ PollIdle /\ HsIdle /\ KeyIdle /\ DamageIdle
    /\ ParseIdle /\ StreamIdle /\ SvgIdle /\ ReplayIdle /\ SdIdle /\ MainIdle
    /\ IsoIdle /\ SchIdle /\ BoIdle /\ TxIdle /\ UdsIdle /\ CatIdle /\ DumpIdle /\ SwIdle /\ TkIdle

SpecArduino == InitArduino /\ [][ArNext]_vars

InitIsotp == IsoInit /\ CodecInit /\ HubInit /\ PollIdle /\ HsIdle /\ KeyIdle /\ DamageIdle
    /\ ParseIdle /\ StreamIdle /\ SvgIdle /\ ReplayIdle /\ SdIdle /\ MainIdle
    /\ ArIdle /\ SchIdle /\ BoIdle /\ TxIdle /\ UdsIdle /\ CatIdle /\ DumpIdle /\ SwIdle /\ TkIdle

SpecIsotp == InitIsotp /\ [][IsoNext]_vars

InitSched == SchInit /\ CodecInit /\ HubInit /\ PollIdle /\ HsIdle /\ KeyIdle /\ DamageIdle
    /\ ParseIdle /\ StreamIdle /\ SvgIdle /\ ReplayIdle /\ SdIdle /\ MainIdle
    /\ ArIdle /\ IsoIdle /\ BoIdle /\ TxIdle /\ UdsIdle /\ CatIdle /\ DumpIdle /\ SwIdle /\ TkIdle

SpecSched == InitSched /\ [][SchNext]_vars

InitBackoff == BoInit /\ CodecInit /\ HubInit /\ PollIdle /\ HsIdle /\ KeyIdle /\ DamageIdle
    /\ ParseIdle /\ StreamIdle /\ SvgIdle /\ ReplayIdle /\ SdIdle /\ MainIdle /\ ArIdle /\ IsoIdle
    /\ SchIdle /\ TxIdle /\ UdsIdle /\ CatIdle /\ DumpIdle /\ SwIdle /\ TkIdle

SpecBackoff == InitBackoff /\ [][BoNext]_vars

InitIsotpSend == TxInit /\ CodecInit /\ HubInit /\ PollIdle /\ HsIdle /\ KeyIdle /\ DamageIdle
    /\ ParseIdle /\ StreamIdle /\ SvgIdle /\ ReplayIdle /\ SdIdle /\ MainIdle /\ ArIdle
    /\ IsoIdle /\ SchIdle /\ BoIdle /\ UdsIdle /\ CatIdle /\ DumpIdle /\ SwIdle /\ TkIdle

SpecIsotpSend == InitIsotpSend /\ [][TxNext]_vars

InitUds == UdsInit /\ CodecInit /\ HubInit /\ PollIdle /\ HsIdle /\ KeyIdle /\ DamageIdle
    /\ ParseIdle /\ StreamIdle /\ SvgIdle /\ ReplayIdle /\ SdIdle /\ MainIdle /\ ArIdle
    /\ IsoIdle /\ SchIdle /\ BoIdle /\ TxIdle /\ CatIdle /\ DumpIdle /\ SwIdle /\ TkIdle

SpecUds == InitUds /\ [][UdsNext]_vars

InitCatalogue == CatInit /\ CodecInit /\ HubInit /\ PollIdle /\ HsIdle /\ KeyIdle /\ DamageIdle
    /\ ParseIdle /\ StreamIdle /\ SvgIdle /\ ReplayIdle /\ SdIdle /\ MainIdle /\ ArIdle
    /\ IsoIdle /\ SchIdle /\ BoIdle /\ TxIdle /\ UdsIdle /\ DumpIdle /\ SwIdle /\ TkIdle

SpecCatalogue == InitCatalogue /\ [][CatNext]_vars

InitDumper == DumpInit /\ CodecInit /\ HubInit /\ PollIdle /\ HsIdle /\ KeyIdle /\ DamageIdle
    /\ ParseIdle /\ StreamIdle /\ SvgIdle /\ ReplayIdle /\ SdIdle /\ MainIdle /\ ArIdle
    /\ IsoIdle /\ SchIdle /\ BoIdle /\ TxIdle /\ UdsIdle /\ CatIdle /\ SwIdle /\ TkIdle

SpecDumper == InitDumper /\ [][DumpNext]_vars

InitSendAndWait == SwInit /\ CodecInit /\ HubInit /\ PollIdle /\ HsIdle /\ KeyIdle /\ DamageIdle
    /\ ParseIdle /\ StreamIdle /\ SvgIdle /\ ReplayIdle /\ SdIdle /\ MainIdle /\ ArIdle
    /\ IsoIdle /\ SchIdle /\ BoIdle /\ TxIdle /\ UdsIdle /\ CatIdle /\ DumpIdle /\ TkIdle

SpecSendAndWait == InitSendAndWait /\ [][SwNext]_vars

InitTickLoop == TkInit /\ CodecInit /\ HubInit /\ PollIdle /\ HsIdle /\ KeyIdle /\ DamageIdle
    /\ ParseIdle /\ StreamIdle /\ SvgIdle /\ ReplayIdle /\ SdIdle /\ MainIdle /\ ArIdle
    /\ IsoIdle /\ SchIdle /\ BoIdle /\ TxIdle /\ UdsIdle /\ CatIdle /\ DumpIdle /\ SwIdle

SpecTickLoop == InitTickLoop /\ [][TkNext]_vars

----------------------------------------------------------------------------
(* Claims *)

\* C1: every frame written by writeFrame (payload 0..64 bytes) is returned
\* unchanged (timestamp, DID, payload) and without error by the readBinaryFrame
\* call that reads it back: the k-th read returns the k-th written frame, and
\* the read after the last frame reports end of stream.
C1_RoundTrip ==
    \A k \in 1..Len(rdOut) :
        IF k <= Len(wrFrames)
        THEN /\ rdOut[k].err = "nil"
             /\ rdOut[k].timestamp = wrFrames[k].timestamp
             /\ rdOut[k].did = wrFrames[k].did
             /\ rdOut[k].value = wrFrames[k].value
        ELSE rdOut[k].err = "EOF"

\* a 64-byte frame and a frame containing the magic in its fields were both read back
C1_Witness ==
    /\ Len(rdOut) = 3
    /\ Len(wrFrames) = 2
    /\ Len(wrFrames[1].value) = 64
    /\ wrFrames[2].did = 43605
    /\ wrFrames[2].timestamp = <<65535, 65535>>
    /\ rdOut[2].err = "nil"

Range(seq) == {seq[i] : i \in 1..Len(seq)}

StrictlyIncreasing(seq) == \A i, j \in 1..Len(seq) : i < j => seq[i] < seq[j]

\* run has finished with sample e as far as subscriber s is concerned
FannedOut(e, s) == ~(runPc = "fanout" /\ runEvent = e /\ s \in runSubs)

InEvents(e) == \E i \in 1..Len(events) : events[i] = e

C3_SnapshotIsNth ==
    \A s \in SubIds :
        (s < next /\ subAt[s] >= 1) =>
            (Delivered(s) # <<>> /\ Delivered(s)[1] = subAt[s])

\* C3 (amended): a subscriber created after run has recorded a last sample k
\* gets k as its first item; after it come, in order and without repetition,
\* the samples run dequeues later, each one either delivered or dropped because
\* the subscriber's own channel was full.
C3_SnapshotIsLastDequeued ==
    \A s \in SubIds :
        s < next =>
            /\ subSnap[s] > 0 => (Delivered(s) # <<>> /\ Delivered(s)[1] = subSnap[s])
            /\ StrictlyIncreasing(Delivered(s))
            /\ ~cancelled[s] =>
                  \A e \in (subSnap[s] + 1)..last :
                      (e \notin hubDropped /\ FannedOut(e, s)) =>
                          (e \in Range(Delivered(s)) \/ e \in subDropped[s])

\* a subscriber whose snapshot was older than the latest broadcast and that
\* then received the later sample
C3_Witness ==
    \E s \in SubIds :
        /\ s < next
        /\ subSnap[s] >= 1
        /\ subAt[s] > subSnap[s]
        /\ Len(Delivered(s)) >= 2
        /\ Delivered(s)[2] = subSnap[s] + 1

C4_Offered ==
    /\ (~hubPanic /\ ~eventsClosed /\ nBroadcast < MaxBroadcasts) => ENABLED Broadcast
    /\ \A s \in SubIds :
        (s < next /\ ~cancelled[s]) =>
            \A e \in (subAt[s] + 1)..nBroadcast :
                (~InEvents(e) /\ FannedOut(e, s)) =>
                    \/ e \in Range(Delivered(s))
                    \/ e \in subDropped[s]
                    \/ e \in hubDropped

\* C4 (amended), step part: a sample is dropped for a subscriber only in a step
\* that finds that subscriber's channel full, and dropped by Broadcast only in
\* a step that finds h.events full; a drop changes no other subscriber's channel.
C4_DropStep ==
    /\ \A s \in SubIds :
          subDropped'[s] # subDropped[s] =>
              /\ Len(chanBuf[s]) = SubQueueCap
              /\ \A t \in SubIds : chanBuf'[t] = chanBuf[t]
    /\ hubDropped' # hubDropped => Len(events) = HubQueueCap

C5_CloseClosesAll ==
    \A s \in SubIds : [](eventsClosed /\ s < next => <>(chanClosed[s] \/ hubPanic))

\* ---- C6

\* number of stream.Add calls made for DID index idx: carry-overs or samples
CountAdds(idx, carry) ==
    Cardinality({k \in 1..Len(streamAdds) :
                    streamAdds[k].idx = idx /\ streamAdds[k].carry = carry})

\* number of frames written to the log for DID index idx
LoggedOf(idx) == Cardinality({k \in 1..Len(pollLog) : pollLog[k].idx = idx})

AllSame(h) == \A i, j \in 1..Len(h) : h[i] = h[j]

\* C6 (as stated): whenever all the responses accepted so far for a DID are
\* identical, exactly one sample has been emitted for it and at most one frame
\* written: the first response emits one sample, the further ones nothing.
C6_IdenticalResponsesEmitOne ==
    \A idx \in 0..(NumDids - 1) :
        (rspHist[idx] # <<>> /\ AllSame(rspHist[idx]))
            => (CountAdds(idx, FALSE) = 1 /\ LoggedOf(idx) = 1)

\* C6 (amended): whenever all the responses accepted so far for a DID are
\* identical, its payload has been decoded and logged once if it is non-empty
\* and never if it is empty; the samples emitted are those the decode table
\* yields for the payload (one RPM sample for a two-byte 0x0100 payload, none for
\* a payload too short to decode), each preceded by one carry-over on a discrete
\* stream, all stamped with the time of one request.
C6_IdenticalResponsesEmitOnce ==
    \A idx \in 0..(NumDids - 1) :
        (rspHist[idx] # <<>> /\ AllSame(rspHist[idx]))
            => LET D == rspHist[idx][1]
                   n == IF D = <<>> THEN 0 ELSE Len(ParseDIDBytes(DIDsK701[idx], D))
               IN  /\ LoggedOf(idx) = (IF D = <<>> THEN 0 ELSE 1)
                   /\ CountAdds(idx, FALSE) = n
                   /\ CountAdds(idx, TRUE) =
                          (IF idx = 1 THEN n ELSE 0)
                   /\ (DIDsK701[idx] = RpmDidK701 /\ Len(D) >= 2) => CountAdds(idx, FALSE) = 1
                   /\ \A j, k \in 1..Len(streamAdds) :
                          (streamAdds[j].idx = idx /\ streamAdds[k].idx = idx)
                              => streamAdds[j].ts = streamAdds[k].ts

\* two identical two-byte responses for 0x0100 were accepted; one sample, one frame
C6_Witness ==
    /\ Len(rspHist[0]) >= 2
    /\ AllSame(rspHist[0])
    /\ rspHist[0][1] = <<15, 160>>
    /\ CountAdds(0, FALSE) = 1
    /\ LoggedOf(0) = 1

\* ---- C7

\* C7: every RDBI request for a DID but its first is issued at least the DID's
\* poll interval after the previous request for that DID was issued.
C7_PollIntervalRespected ==
    \A idx \in 0..(NumDids - 1) :
        \A k \in 1..(Len(issuedAt[idx]) - 1) :
            issuedAt[idx][k + 1] - issuedAt[idx][k] >= DIDsToPollIntervalK701[DIDsK701[idx]]

\* every DID was polled once and 0x0100, the first to be due again, a second
\* time after Run slept on its timer
C7_Witness ==
    /\ Len(issuedAt[0]) = 2
    /\ Len(issuedAt[1]) = 1
    /\ Len(issuedAt[2]) = 1
    /\ issuedAt[0][2] > issuedAt[2][1]

\* ---- C8

\* C8: no tester-present frame is transmitted between the transmission of a
\* request and the receipt of its response or its timeout.
C8_NoTesterPresentMidTransaction == tpMidRequest = 0

\* ---- C9

\* the requests the handshake transmitted after the seed request
HsKeyFrames == Tail(hsSent)

\* an answer 67 SUBKEY
HsPositive(out) ==
    /\ out.err = "nil"
    /\ Len(out.rsp) >= 2
    /\ out.rsp[1] = 103
    /\ out.rsp[2] = (IF hsLevel = 3 THEN 6 ELSE 4)

\* C9: the first request is 27 SUBSEED; every later one is 27 SUBKEY keyHi keyLo
\* with the key of the received seed, and there are at most 3 of them; the
\* handshake succeeds exactly when an attempt is answered by 67 SUBKEY, at
\* once; after the third unsuccessful attempt it fails with "key rejected", and
\* Init returns an error exactly when the handshake did.
C9_Handshake ==
    /\ hsSent # <<>> =>
          /\ hsSent[1] = <<39, IF hsLevel = 3 THEN 5 ELSE 3>>
          /\ Len(HsKeyFrames) <= 3
          /\ \A k \in 1..Len(HsKeyFrames) :
                HsKeyFrames[k] = <<39, IF hsLevel = 3 THEN 6 ELSE 4,
                                   GenerateK701Key(hsLevel, hsSeed[1], hsSeed[2]).keyHi,
                                   GenerateK701Key(hsLevel, hsSeed[1], hsSeed[2]).keyLo>>
    /\ \A k \in 1..Len(hsAnswers) :
          HsPositive(hsAnswers[k]) => (k = Len(hsAnswers) /\ hsResult = "nil")
    /\ hsResult = "nil" =>
          /\ hsAnswers # <<>>
          /\ HsPositive(hsAnswers[Len(hsAnswers)])
          /\ Len(HsKeyFrames) = Len(hsAnswers)
    /\ (Len(hsAnswers) = 3 /\ ~HsPositive(hsAnswers[3]) /\ hsPc \in {"done", "returned"})
          => hsResult = "securityAccess: key rejected"
    /\ hsResult = "securityAccess: key rejected" =>
          (Len(HsKeyFrames) = 3 /\ Len(hsAnswers) = 3)
    /\ hsPc = "returned" => ((initResult = "nil") <=> (hsResult = "nil"))
    /\ hsPc = "returned" => initResult # ""

\* the level-3 handshake got the seed AB CD, was refused twice and accepted on
\* its third attempt, and Init returned nil
C9_Witness ==
    /\ hsLevel = 3
    /\ hsSeed = <<171, 205>>
    /\ Len(hsAnswers) = 3
    /\ Len(hsSent) = 4
    /\ hsResult = "nil"
    /\ hsPc = "returned"
    /\ initResult = "nil"

\* ---- C10

\* C10: for levels 2 and 3 GenerateK701Key returns no error and two bytes with
\* keyHi * 256 + keyLo = (magic * (seedHi * 256 + seedLo)) mod 2^16, magic
\* being 0x4D4E for level 2 and 0x6F31 for level 3; key(L2, 00, 01) = (4D, 4E).
C10_KeyIsMagicTimesSeed ==
    (keyOut.err # "none" /\ keyLevel \in {2, 3}) =>
        /\ keyOut.err = "nil"
        /\ keyOut.keyHi \in 0..255
        /\ keyOut.keyLo \in 0..255
        /\ keyOut.keyHi * 256 + keyOut.keyLo =
              ((IF keyLevel = 2 THEN 19790 ELSE 28465) * (keySeedHi * 256 + keySeedLo)) % 65536
        /\ (keyLevel = 2 /\ keySeedHi = 0 /\ keySeedLo = 1)
              => (keyOut.keyHi = 77 /\ keyOut.keyLo = 78)

\* the key of level 2 for the seed 00 01 was computed
C10_Witness ==
    /\ keyLevel = 2
    /\ keySeedHi = 0
    /\ keySeedLo = 1
    /\ keyOut = [keyHi |-> 77, keyLo |-> 78, err |-> "nil"]

\* ---- C11

\* C11 (as stated): GenerateK701Key for level 3 and the seed 12 34 returns
\* the key bytes (B7, E4).
C11_KeyOfSeed1234IsB7E4 ==
    (keyOut.err # "none" /\ keyLevel = 3 /\ keySeedHi = 18 /\ keySeedLo = 52)
        => (keyOut.err = "nil" /\ keyOut.keyHi = 183 /\ keyOut.keyLo = 228)

\* C11 (amended): GenerateK701Key for level 3 and the seed 12 34 returns the
\* key bytes (07, F4), since (0x6F31 * 0x1234) & 0xFFFF = 0x07F4.
C11_KeyOfSeed1234Is07F4 ==
    (keyOut.err # "none" /\ keyLevel = 3 /\ keySeedHi = 18 /\ keySeedLo = 52)
        => (keyOut.err = "nil" /\ keyOut.keyHi = 7 /\ keyOut.keyLo = 244)

\* the key of level 3 for the seed 12 34 was computed
C11_Witness ==
    /\ keyLevel = 3
    /\ keySeedHi = 18
    /\ keySeedLo = 52
    /\ keyOut.err = "nil"

\* ---- C12

\* C12 (as stated): after one bit of the header (timestamp, DID or length) or
\* of the payload of a frame was flipped, readBinaryFrame returns BadCrc.
C12_AnyBitFlipIsBadCrc ==
    (flipAt # <<0, 0>> /\ rdOut # <<>>) => rdOut[1].err = "badCrc"

\* C12 (amended): a flipped bit of the timestamp, the DID or the payload gives
\* BadCrc. A flipped bit of the length byte gives BadLen exactly when the new
\* length exceeds 64; otherwise the reader takes a payload of the new length:
\* unexpected EOF when the input ends before it, else BadCrc, or no error and
\* a payload of the new length when the byte at the new CRC position matches.
\* In no case is the original frame returned.
C12_BitFlipIsDetectedOutsideLength ==
    (flipAt # <<0, 0>> /\ rdOut # <<>>) =>
        LET f      == wrFrames[1]
            r      == rdOut[1]
            newLen == flipBitOfByte(Len(f.value), flipAt[2])
        IN  /\ flipAt[1] # 7 => r.err = "badCrc"
            /\ flipAt[1] = 7 =>
                  /\ (r.err = "badLen") <=> (newLen > 64)
                  /\ r.err \in {"badLen", "badCrc", "ErrUnexpectedEOF", "nil"}
                  /\ r.err = "ErrUnexpectedEOF" => Len(logFile) < 2 + 7 + newLen + 1
                  /\ r.err = "nil" => Len(r.value) = newLen
            /\ ~(r.err = "nil" /\ r.did = f.did /\ r.value = f.value
                 /\ r.timestamp = f.timestamp)

\* a payload bit of a 64-byte frame was flipped and the frame was read
C12_Witness ==
    /\ flipAt[1] > 7
    /\ Len(wrFrames[1].value) = 64
    /\ rdOut # <<>>
    /\ rdOut[1].err = "badCrc"

\* ---- C13

\* C13: readBinaryFrame on junk without AA 55 followed by an encoded frame
\* returns that frame, with no error.
C13_ResyncReturnsFrame ==
    (codecPhase = "replay" /\ flipAt = <<0, 0>> /\ ~ContainsMagic(junk) /\ rdOut # <<>>) =>
        /\ rdOut[1].err = "nil"
        /\ rdOut[1].did = wrFrames[1].did
        /\ rdOut[1].value = wrFrames[1].value
        /\ rdOut[1].timestamp = wrFrames[1].timestamp

\* ---- C14

\* the CRC-8 of the bytes of buf after the magic
CrcAfterMagic(buf) == crc8UpdateBuf(0, Slice(buf, 3, Len(buf)))

\* C14 (as stated): decoding AA 55 10 27 00 00 00 01 00 02 0F A0 <crc>, <crc>
\* being the CRC-8 of the ten bytes after the magic, yields DID 0x0100 with
\* payload 0F A0 and exactly one RPM sample of value 1000.
C14_StatedBytesDecodeToRpm1000 ==
    (logFile = Append(ExampleStated, CrcAfterMagic(ExampleStated)) /\ rdOut # <<>>) =>
        /\ rdOut[1].err = "nil"
        /\ rdOut[1].did = 256
        /\ rdOut[1].value = <<15, 160>>
        /\ Len(parseOut) = 1
        /\ parseOut[1].StreamKey = "RPM"
        /\ parseOut[1].DidValue[1] = 1000 * parseOut[1].DidValue[2]

\* C14 (amended): decoding AA 55 10 27 00 00 01 00 02 0F A0 <crc>, <crc> being
\* the CRC-8 of the nine bytes after the magic (8C), yields timestamp 10000,
\* DID 0x0100 with payload 0F A0 and exactly one RPM sample of value 1000;
\* the bytes as stated, whatever their last byte, yield no frame at all.
C14_FramedBytesDecodeToRpm1000 ==
    /\ (logFile = Append(ExampleFramed, CrcAfterMagic(ExampleFramed)) /\ rdOut # <<>>) =>
          /\ CrcAfterMagic(ExampleFramed) = 140
          /\ rdOut[1].err = "nil"
          /\ rdOut[1].timestamp = <<0, 10000>>
          /\ rdOut[1].did = 256
          /\ rdOut[1].value = <<15, 160>>
          /\ Len(parseOut) = 1
          /\ parseOut[1].StreamKey = "RPM"
          /\ parseOut[1].DidValue[1] = 1000 * parseOut[1].DidValue[2]
    /\ (Len(logFile) = Len(ExampleStated) + 1 /\ rdOut # <<>>) =>
          (rdOut[1].err # "nil" /\ ~parseDone)

\* the frame AA 55 10 27 00 00 01 00 02 0F A0 8C was read and decoded
C14_Witness ==
    /\ logFile = Append(ExampleFramed, 140)
    /\ rdOut # <<>>
    /\ rdOut[1].err = "nil"
    /\ parseDone

\* ---- C20

\* the payload length below which an entry of the decode table lacks bytes
ParseNeeds(did) ==
    CASE did \in {RpmDidK701, SideStandDidK701, GearDidK701} -> 2
      [] did \in {ThrottleDidK701, CoolantDidK701} -> 1

\* C20: ParseDIDBytes returns zero samples for a DID outside the decode table
\* and for a known DID whose payload is shorter than its entry needs, the
\* empty payload included.
C20_UnknownOrShortGivesNoSample ==
    (parseDone /\ logFile = <<>>) =>
        /\ parseDid \in ParseUnknownDids => parseOut = <<>>
        /\ (parseDid \in ParseKnownDids /\ Len(parseData) < ParseNeeds(parseDid))
              => parseOut = <<>>

\* ---- C15
\* the x coordinate of the i-th emitted point
WindowX(i) == window[i].timestamp

\* C15 (as stated): after OnTick(t) on a stream whose points are sorted by timestamp,
\* every point of the emitted window has x in [0, windowSize], and the last emitted
\* point has x = windowSize.
C15_EveryXInsideWindow ==
    window # <<>> =>
        /\ \A i \in 1..Len(window) : WindowX(i) >= 0 /\ WindowX(i) <= windowSize
        /\ WindowX(Len(window)) = windowSize

\* C15 (amended): after OnTick(t) on a stream with stored points sorted by timestamp,
\* the last emitted point is the sentinel with x = windowSize; the points before it
\* are in timestamp order; only the first of them can have x < 0 (the stored point
\* that precedes the window), only the last of them can have x > windowSize (the
\* stored point that follows t), except that when every stored point follows t the
\* first two stored points are emitted with x > windowSize; all others have x in
\* [0, windowSize].
C15_XInsideWindowExceptMargins ==
    window # <<>> =>
        LET n == Len(window)
        IN  /\ n >= 2
            /\ WindowX(n) = windowSize
            /\ \A i \in 1..(n - 2) : WindowX(i) <= WindowX(i + 1)
            /\ \A i \in 1..(n - 1) :
                  /\ WindowX(i) < 0 => i = 1
                  /\ WindowX(i) > windowSize =>
                        \/ i = n - 1
                        \/ n = 3 /\ i = 1

\* a window with a point left of 0, a point inside, a point right of windowSize
\* and the sentinel
C15_Witness ==
    /\ streamCall = "OnTick"
    /\ Len(window) = 4
    /\ WindowX(1) < 0
    /\ WindowX(2) >= 0 /\ WindowX(2) <= windowSize
    /\ WindowX(3) > windowSize
    /\ WindowX(4) = windowSize

\* ---- C16
\* PostProcess keeps a stored point and the sentinel whenever the stream has a point
PostProcessKeepsOnePoint ==
    (streamCall = "OnTick" /\ points # <<>>) => Len(window) >= 2

\* C16 (as stated): once a sample has been added, the point buffer that the most
\* recent OnTick leaves for the renderer contains at least one point.
C16_EmittedBufferNonEmpty ==
    (svgCall = "OnTick" /\ svgLatest # SvgPointZero) => svgPoints # <<>>

\* ---- C17
\* the timestamp of the k-th frame emitted by the p-th playOnce call
EmittedTs(p, k) == TsValue(rpEmitted[p][k].timestamp)

\* C17: with speed > 0, before each emitted frame after the first emitted one the
\* replayer sleeps (frame.ts - prev_ts) / speed ms when the difference is positive
\* and does not sleep otherwise, and prev_ts becomes frame.ts; two frames stamped
\* 1000 ms apart at speed 2 are emitted 500 ms apart; with speed 0 it never sleeps.
C17_SleepIsDeltaOverSpeed ==
    /\ \A p \in 1..Len(rpEmitted) : \A k \in 1..Len(rpEmitted[p]) :
          LET slept == rpEmitted[p][k].slept
          IN  IF k = 1 \/ rpSpeed = 0 THEN slept = NoSleep
              ELSE LET delta == EmittedTs(p, k) - EmittedTs(p, k - 1)
                   IN  /\ delta > 0 => slept * rpSpeed = delta * Millisecond
                       /\ delta <= 0 => slept = NoSleep
                       /\ (delta = 1000 /\ rpSpeed = 2) => slept = 500 * Millisecond
    /\ (rpPc = "read" /\ rpSpeed > 0 /\ rpPasses > 0) =>
          (rpEmitted[rpPasses] # <<>> =>
              rpPrevMS = EmittedTs(rpPasses, Len(rpEmitted[rpPasses])))

\* at speed 2 a pass emitted three frames: the second 1000 ms after the first, after
\* a sleep of 500 ms, the third stamped earlier than the second, without a sleep
C17_Witness ==
    /\ rpSpeed = 2
    /\ rpPasses = 1
    /\ Len(rpEmitted[1]) = 3
    /\ EmittedTs(1, 2) - EmittedTs(1, 1) = 1000
    /\ rpEmitted[1][2].slept = 500 * Millisecond
    /\ EmittedTs(1, 3) < EmittedTs(1, 2)
    /\ rpEmitted[1][3].slept = NoSleep

\* ---- C18
\* C18 (as stated): when the replay input is exhausted, at a frame boundary or inside
\* a partially written last frame, playOnce returns success; Run then reopens the
\* file if loop is set and returns success if it is not.
C18_ExhaustedInputIsSuccess ==
    (rpDamage[1] \in {"none", "cut"} /\ rpPc = "returned") =>
        (rpResult = "nil" /\ ~rpLoop)

\* ---- C19
\* C19 (as stated): a frame that fails length or CRC validation is skipped during
\* replay: playOnce goes on and emits every later valid frame, and Run does not end
\* with an error because of it.
C19_BadFrameIsSkipped ==
    (rpDamage[1] \in {"crc", "len"} /\ rpPc = "returned") =>
        rpResult = "nil"

\* ---- C21
\* C21 (as stated): for every stream, the timestamps of the points the driver adds
\* to it, carry-over points included, are strictly increasing in the order of the
\* Add calls.
C21_StreamTimestampsStrictlyIncrease ==
    \A i, j \in 1..Len(streamAdds) :
        (i < j /\ streamAdds[i].key = streamAdds[j].key) =>
            streamAdds[i].ts < streamAdds[j].ts

\* ---- C27
\* C27 (as stated): on a discrete stream every changed value emitted at time now is
\* preceded by a carry-over point (now - 1 ms, previous value of the stream).
C27_CarryOverIsOneMsEarlier ==
    \A i \in 1..Len(streamAdds) :
        (Discrete(streamAdds[i].key) /\ ~streamAdds[i].carry) =>
            /\ i > 1
            /\ streamAdds[i - 1].carry
            /\ streamAdds[i - 1].key = streamAdds[i].key
            /\ streamAdds[i - 1].ts = streamAdds[i].ts - 1
            /\ \A h \in 1..(i - 2) :
                  (streamAdds[h].key = streamAdds[i].key
                   /\ \A g \in (h + 1)..(i - 2) : streamAdds[g].key # streamAdds[i].key)
                      => streamAdds[i - 1].value = streamAdds[h].value

\* ---- C26
\* the payloads written to the log for DID index idx, in order
LoggedData(idx) ==
    LET sel == SelectSeq(pollLog, LAMBDA e : e.idx = idx)
    IN  [k \in 1..Len(sel) |-> sel[k].data]

\* the payloads of h that differ from the one kept before them (from the empty
\* payload for the first): what is recorded when only repeated payloads are dropped
ChangedPayloads(h) ==
    LET keep[k \in 0..Len(h)] ==
            IF k = 0 THEN <<>>
            ELSE LET prev == IF keep[k - 1] = <<>> THEN <<>>
                             ELSE keep[k - 1][Len(keep[k - 1])]
                 IN  IF h[k] = prev THEN keep[k - 1] ELSE Append(keep[k - 1], h[k])
    IN  keep[Len(h)]

\* C26 (as stated): the polling loop suppresses a response only when its payload is
\* the one last recorded for its DID: every response whose payload bytes differ
\* from the last recorded payload is decoded, emitted and written to the log.
C26_DifferentPayloadIsRecorded ==
    \A idx \in 0..(NumDids - 1) : LoggedData(idx) = ChangedPayloads(rspHist[idx])

\* ---- C28
\* the first index of due in cyclic order from start, -1 if due is empty
FirstDueFrom(start, due) ==
    LET offs == {i \in 0..(NumDids - 1) : ((start + i) % NumDids) \in due}
    IN  IF offs = {} THEN -1
        ELSE (start + (CHOOSE i \in offs : \A j \in offs : i <= j)) % NumDids

\* C28: each poll goes to the first due DID in cyclic order starting at the DID
\* after the last polled one, and a DID that is due is polled after at most
\* NumDids - 1 polls of other DIDs.
C28_CyclicOrderNoStarvation ==
    \A k \in 1..Len(polled) :
        /\ polled[k].start = (IF k = 1 THEN 0 ELSE (polled[k - 1].idx + 1) % NumDids)
        /\ polled[k].idx = FirstDueFrom(polled[k].start, polled[k].due)
        /\ \A i \in polled[k].due :
              Len(polled) >= k + NumDids - 1 =>
                  \E j \in k..(k + NumDids - 1) : polled[j].idx = i

\* all three DIDs were due at the first scan; the third was polled after the two
\* others, and the fourth poll went back to the first DID
C28_Witness ==
    /\ Len(polled) >= 4
    /\ polled[1].due = 0..(NumDids - 1)
    /\ polled[1].idx = 0 /\ polled[2].idx = 1 /\ polled[3].idx = 2
    /\ polled[3].due = {0, 1, 2}
    /\ polled[4].idx = 0

\* ---- C24
\* Once Close has cancelled the context, Run, testerPresentLoop and receiveLoop
\* each eventually return, whatever state they were in.
C24_LoopsReturnAfterClose ==
    sdCtxDone ~> (sdRun = "returned" /\ sdTp = "returned" /\ sdRx = "returned")

\* Close ran to its end, receiveLoop saw a failed Receive, and every loop has returned
C24_Witness ==
    /\ sdCtxDone
    /\ sdConnClosed
    /\ sdRun = "returned"
    /\ sdTp = "returned"
    /\ sdRx = "returned"
    /\ sdErrCount > 0

\* ---- C23
\* When the driver's Init has failed, the process has ended with a non-zero exit
\* code; exit code 0 means Init succeeded and the server shut down cleanly.
C23_InitFailureExitsNonZero ==
    mainPc = "exited" =>
        /\ (mainInitErr \notin {"", "nil"} => exitCode # 0)
        /\ (exitCode = 0 => mainInitErr = "nil")

\* the SocketCAN handshake failed, Init returned the error and the process has ended
C23_Witness ==
    /\ mainPc = "exited"
    /\ mainDriver = "socket-can"
    /\ hsResult \notin {"", "nil"}
    /\ mainInitErr = "security handshake failed"

\* ---- C25
\* C25 (as stated): while the serial frame reader started by Arduino.Run is running, Run has not
\* returned and the log file is not closed; once the reader has ended and Run has
\* returned, every valid frame the reader received is in the log file.
C25_RunOutlivesReader ==
    /\ (arReader = "reading" => arRun # "returned" /\ ~arFileClosed)
    /\ (arReader = "returned" /\ arRun = "returned" => arFile = arWritten)

\* ---- C29
\* the frames of the valid chunks, in order
GoodFrames(chunks) ==
    LET good == {i \in 1..Len(chunks) : chunks[i].kind = "good"}
        nth[k \in 0..Len(chunks)] ==
            IF k = 0 THEN <<>>
            ELSE IF k \in good THEN Append(nth[k - 1], chunks[k].frame) ELSE nth[k - 1]
    IN  nth[Len(chunks)]

\* C29 (as stated): a frame rejected with BadLen or BadCrc is neither logged nor
\* broadcast, the valid frames sent after it are logged and broadcast, and the
\* reader stops only at the end of the stream.
C29_RejectedFrameIsSkipped ==
    arReader = "returned" =>
        /\ arPos > Len(arIn)
        /\ arWritten = GoodFrames(arChunks)
        /\ arBroadcast = GoodFrames(arChunks)

\* a frame with a wrong CRC byte, then a valid frame: the first is rejected and
\* dropped, the second is logged and broadcast
C29_BadCrcThenValid ==
    (/\ arReader = "returned"
     /\ \A i \in 1..Len(arChunks) : arChunks[i].kind \in {"good", "badCrc"})
    => /\ arWritten = GoodFrames(arChunks)
       /\ arBroadcast = GoodFrames(arChunks)
       /\ Len(arRejected) = Len(arChunks) - Len(GoodFrames(arChunks))

\* ---- C30
\* the Flow Control frame is sent once, after the First Frame and before any
\* Consecutive Frame is consumed
FlowControlInOrder ==
    /\ Cardinality({i \in 1..Len(isoTrace) : isoTrace[i] = "FC"}) <= 1
    /\ \A i \in 1..Len(isoTrace) :
          /\ isoTrace[i] = "FC" => i > 1 /\ isoTrace[i - 1] = "FF"
          /\ isoTrace[i] = "CF" => \E j \in 1..(i - 1) : isoTrace[j] = "FC"

\* C30 (as stated): isotpRecv returns either exactly the payload of the announced
\* length or an error, never a partial payload; one Flow Control frame follows a
\* First Frame before any Consecutive Frame is consumed.
C30_PayloadOrError ==
    /\ FlowControlInOrder
    /\ isoPc = "returned" =>
          \/ isoErr = "nil" /\ isoOut = isoPayload
          \/ isoErr \notin {"nil", "panic", ""} /\ isoOut = <<>>

\* every call that does not panic returns the whole payload or an error
C30_PayloadOrErrorUnlessPanic ==
    /\ FlowControlInOrder
    /\ isoPc = "returned" =>
          \/ isoErr = "nil" /\ isoOut = isoPayload
          \/ isoErr = "panic"
          \/ isoErr \notin {"nil", "panic", ""} /\ isoOut = <<>>

\* ---- C22
\* the number of polls of DID index i differs by at most 1 from floor(W / d_i)
\* over the window W = [0, schClock]
PollCountKeepsPace(i) ==
    LET expected == schClock \div DIDsToPollIntervalK701[DIDsK701[i]]
    IN  schPolls[i] - expected \in -1..1

\* C22 (as stated): over every window much longer than the largest interval, the
\* number of polls issued for each DID is within 1 of floor(W / d_i), whatever
\* the response times of the requests (up to the 50 ms timeout).
C22_SchedulerFairness ==
    schClock >= SchedWindow => \A i \in 0..(NumDids - 1) : PollCountKeepsPace(i)

\* with requests that are answered at once the poll counts keep pace
C22_FairWhenAnsweredAtOnce ==
    (schResp = 0 /\ schClock >= SchedWindow) =>
        \A i \in 0..(NumDids - 1) : PollCountKeepsPace(i)

\* ---- C33
\* C33 (as stated): the delay slept after the k-th consecutive receive failure,
\* for every k from 1 to the give-up threshold, is positive, not smaller than the
\* delay after failure k - 1, and not larger than one second.
C33_BackoffGrowsToCap ==
    (boPc = "receive" /\ boSlept) =>
        /\ ~Int64Negative(boDelay) /\ boDelay # Int64Zero
        /\ ~Int64Greater(boDelay, Int64Second)
        /\ ~Int64Negative(boPrevDelay) /\ ~LimbsLess(boDelay, boPrevDelay)

\* up to the 43rd consecutive failure the delay is positive, monotone and capped
C33_BackoffUpTo43 ==
    (boPc = "receive" /\ boSlept /\ boErrCount <= 43) =>
        /\ ~Int64Negative(boDelay) /\ boDelay # Int64Zero
        /\ ~Int64Greater(boDelay, Int64Second)
        /\ ~Int64Negative(boPrevDelay) /\ ~LimbsLess(boDelay, boPrevDelay)

\* ---- C31

\* The payload bytes carried by the transmitted frames: every frame without
\* its PCI byte, in order
RECURSIVE txCarried(_)
txCarried(frames) ==
    IF frames = <<>> THEN <<>>
    ELSE SubSeq(Head(frames), 2, Len(Head(frames))) \o txCarried(Tail(frames))

\* A payload of at most 7 bytes that was sent went out as one frame whose
\* first byte is the payload length, followed by the payload
C31_ShortAsSingleFrame ==
    (txPc = "returned" /\ txErr = "nil" /\ Len(txPayload) <= SingleFrameMax) =>
        /\ Len(txFrames) = 1
        /\ txFrames[1][1] = Len(txPayload)
        /\ txCarried(txFrames) = txPayload

\* C31 (as stated): isotpSend reports success only if the whole payload was
\* transmitted: whenever it has returned nil, the frames handed to the bus
\* carry exactly the payload (one Single Frame for up to 7 bytes, First
\* Frame and Consecutive Frames for more).
C31_SuccessMeansTransmitted ==
    (txPc = "returned" /\ txErr = "nil") => txCarried(txFrames) = txPayload

\* ---- C32

\* udsRequest alone: a responsePending answer never ends the request, and
\* another negative response ends it with the error that carries its NRC
C32_UdsRequestKeepsWaiting ==
    (udsMode = "udsRequest" /\ udsPc = "returned") =>
        /\ ~isPending(udsRsp)
        /\ isNegative(udsRsp) => udsErr = "nrc"

\* C32 (as stated): a negative response with NRC 0x78 never ends a request:
\* no request, that of the polling loop included, returns to its caller with
\* the responsePending answer as its response; the client keeps waiting for
\* the final response.
C32_PendingKeepsWaiting ==
    udsPc = "returned" => ~isPending(udsRsp)

\* ---- C39

\* For the catalogue DIDs that fit 16 bits the request and the logged frame
\* carry the DID, and the replay selects the case the live decoding selected
C39_SixteenBitDids ==
    (catPc = "replayed" /\ catDid < 65536) =>
        /\ carriedDid(catReq) = catDid
        /\ readBinaryFrame(catLog, 1).did = catDid
        /\ catReplay = catLive

\* C39 (as stated): for every DID of the poll catalogue, 0xE5002 included,
\* the DID in the RDBI request and the DID in the logged frame equal the
\* catalogue DID, and replaying the logged frame selects the same entry of
\* the decode table as the live decoding did.
C39_DidSurvivesRequestAndLog ==
    catPc = "replayed" =>
        /\ carriedDid(catReq) = catDid
        /\ readBinaryFrame(catLog, 1).did = catDid
        /\ catReplay = catLive

\* ---- C40

\* What is written is always the bytes from address 0 on, in address order,
\* and never a byte beyond the ROM; the size reported is the number written
C40_WrittenInOrder ==
    /\ dmWritten = [i \in 1..Len(dmWritten) |-> i - 1]
    /\ Len(dmWritten) <= dmRom
    /\ dmPc = "returned" => dmReported = Len(dmWritten)

\* At the return at most one readable byte is missing
C40_AtMostOneByteShort ==
    dmPc = "returned" => dmReported \in {dmRom - 1, dmRom}

\* C40 (as stated): for every ROM size S the loop returns with exactly the
\* bytes [0, S) written in address order and S reported: shrinking the chunk
\* down to 1 never stops before the last readable byte.
C40_WholeRomDumped ==
    dmPc = "returned" =>
        /\ dmWritten = [i \in 1..dmRom |-> i - 1]
        /\ dmReported = dmRom

\* ---- C34

\* The stored points older than the left edge of the window at time now
olderThanWindow(pts, now) == {i \in 1..Len(pts) : pts[i].timestamp < now - windowSize}

\* Neither Add nor OnTick removes a stored point: the list keeps every
\* point it was given, in order
C34_PointsOnlyAppended ==
    [][Len(points') >= Len(points) /\ SubSeq(points', 1, Len(points)) = points]_vars

\* C34 (as stated): the stored point list is a sliding window: after any
\* sequence of Add and OnTick calls, an OnTick at time now leaves at most one
\* stored point older than now - windowSize.
C34_AtMostOnePointLeftOfWindow ==
    [][\A t \in StreamTimes :
          StreamOnTick(t) => Cardinality(olderThanWindow(points', t)) <= 1]_vars

\* ---- C35

\* A subscriber channel is closed once: cancel and the worker's exit close a
\* channel only while it is registered, and both remove it under the lock
C35_ClosedOnlyWhileRegistered ==
    [][\A s \in SubIds : (chanClosed'[s] /\ ~chanClosed[s]) => (s \in subs /\ s \notin subs')]_vars

\* A closed channel is never registered, so no later close can find it
C35_NoClosedChannelRegistered ==
    \A s \in subs : ~chanClosed[s]

\* C35 (as stated): under every interleaving of cancel, Close and the
\* worker's fan-out, the worker never sends on a closed subscriber channel:
\* no fan-out step finds the channel it sends to closed.
C35_NoSendOnClosedChannel ==
    [][\A id \in SubIds : RunFanOut(id) => ~chanClosed[id]]_vars

\* ---- C36

\* A frame that is dispatched while no waiter is registered is dropped
C36_FrameWithoutWaiterDropped ==
    [][(ReceiveLoop /\ ~waiterOn) => waitCh' = waitCh]_vars

\* C36 (as stated): a response that arrives after its request timed out has
\* no effect on later polls: the frame SendAndWait takes from its waiter
\* channel is always an answer of the ECU to the request of that poll, never
\* the answer to an earlier request.
C36_ResponseBelongsToItsRequest ==
    [][(RunAwait /\ waitCh # <<>>) =>
          Head(waitCh) \in EcuAnswers(rdbiRequest(DIDsK701[readyIdx]))]_vars

\* ---- C37

\* While a call is between registration and return its channel is the one
\* registered waiter; with no call outstanding no waiter is registered
C37_WaiterMatchesCall ==
    /\ swPc = "idle" => swWaiters = <<>>
    /\ swPc \in {"registered", "waiting"} => swWaiters = <<swCall>>

\* receiveLoop is never held up: a frame read from the bus can always be dispatched
C37_DispatchNeverBlocks ==
    swBus # <<>> => ENABLED SwDispatch

\* A frame dispatched while a call is outstanding is appended to the call's
\* channel if fewer than SubscriberBufferSize frames are buffered there, and
\* dropped otherwise
C37_DispatchStep ==
    (SwDispatch /\ swPc \in {"registered", "waiting"}) =>
        swBuf'[swCall] = IF Len(swBuf[swCall]) < SubscriberBufferSize
                         THEN Append(swBuf[swCall], Head(swBus))
                         ELSE swBuf[swCall]

\* The frame a call returns is the first one dispatched since its registration
C37_ReturnStep ==
    SwReturnFrame => swOut' = swBuf[swCall][1]

\* C37 (as stated): a response frame received at any time after the
\* transmission is handed to the waiter: every frame dispatched while the
\* call waits is appended to the waiter's channel.
C37_EveryFrameHanded ==
    [][(SwDispatch /\ swPc = "waiting") =>
          swBuf'[swCall] = Append(swBuf[swCall], Head(swBus))]_vars

\* C37 (amended): the waiter is registered before the request is sent and
\* removed on every return path, no waiter stays registered once no call is
\* outstanding, dispatch never blocks, and a frame received while the call is
\* outstanding is handed to the waiter unless its channel already holds
\* SubscriberBufferSize frames; the call returns the first frame handed to it.
C37_WaiterLifecycle ==
    /\ []C37_WaiterMatchesCall
    /\ []C37_DispatchNeverBlocks
    /\ [][C37_DispatchStep /\ C37_ReturnStep]_vars

\* A second call has returned the frame it was handed and no waiter is left
C37_Witness ==
    /\ swCall = 2
    /\ swPc = "idle"
    /\ swResult = "frame"
    /\ swOut > 0
    /\ swWaiters = <<>>

\* ---- C38

\* No point is handed to the renderer in two ticks
C38_NoPointRenderedTwice ==
    \A p \in DOMAIN tkRendered : tkRendered[p] <= 1

\* C38 (as stated): under every interleaving of the driver's Add with the
\* tick loop's OnTick, render and clear steps, every point added is handed
\* to the renderer in exactly one tick: a point that has left the buffer was
\* rendered once, and none is rendered twice.
C38_EveryPointRenderedOnce ==
    \A p \in DOMAIN tkRendered :
        IF p \in pointsOf(tkPoints) THEN tkRendered[p] <= 1 ELSE tkRendered[p] = 1

====
